---- MODULE Spec2Model ----
(***************************************************************************)
(* Model of the snapshot streaming engine of uc-intg-cctv:                 *)
(* SecurityCameraMediaPlayer (media_player.py), the parts of               *)
(* SecurityCameraClient it drives (client.py) and the remote-disconnect    *)
(* handler (driver.py).                                                    *)
(*                                                                         *)
(* Execution model: one asyncio event loop.  `ready` is the loop's FIFO    *)
(* queue of runnable coroutines; the head runs without interruption up to  *)
(* its next suspending await.  Command handlers and _image_stream_loop     *)
(* tasks are the coroutines.  Timers (asyncio.sleep) and HTTP completions  *)
(* are environment events that put a suspended coroutine back on `ready`.  *)
(***************************************************************************)
EXTENDS Integers, Sequences, FiniteSets, TLC

\* ---------------------------------------------------------------- bounds
MaxHandlers == 2      \* command / event handlers that may be in progress at once
MaxTasks == 3         \* _image_stream_loop tasks that may exist at once
MaxCommands == 3      \* commands and events dispatched in one run
MaxCameras == 2       \* camera descriptors in config.json

\* ------------------------------------------------------ program constants
max_failures == 5     \* media_player.py:238

\* ------------------------------------------------------------ value sets
None == "None"
Names == {"A", "B"}                       \* camera names used in configurations
SourceArgs == Names \cup {"X", ""}        \* "X": unknown name, "": missing / empty parameter
ConfigLists == {<<>>, <<"A">>, <<"A", "B">>}

HandlerIds == 1..(MaxHandlers + 1)     \* the last slot is used only by SpecDeep
TaskIds == 1..MaxTasks
NoTask == 0

OFF == "OFF"
PLAYING == "PLAYING"
UNAVAILABLE == "UNAVAILABLE"

VARIABLES
    cameras_config,   \* ordered camera names of the loaded configuration
    attributes,       \* entity attributes STATE, SOURCE, MEDIA_TITLE, MEDIA_IMAGE_URL, MEDIA_ARTIST
    remote,           \* attributes last pushed with update_attributes, None before the first push
    current_source,   \* self.current_source
    current_client,   \* self.current_client: name of the camera whose client it is, or None
    is_streaming,     \* self.is_streaming
    stream_task,      \* self.stream_task: task id or NoTask
    tasks,            \* the _image_stream_loop tasks
    handlers,         \* the handler coroutines in progress
    ready,            \* the event loop's FIFO of runnable coroutines
    issued,           \* number of commands and events dispatched so far
    returned,         \* the handler that returned in the last step and its status, or NoReturn
    power_cycle,      \* history: "off" once PowerOff has returned from UNAVAILABLE, "on" once
                      \* PowerOn has returned right after it, "none" after any other handler step
    current_option,   \* CameraSelect: attributes[CURRENT_OPTION]
    select_remote,    \* CameraSelect: the option last pushed with update_attributes, or None
    media_player,     \* CameraSelect: TRUE when self.media_player refers to the media player
    repeat,           \* history (SpecDeep): the state in which a command was dispatched again
                      \* right after it had returned, or NoRepeat
    origin,           \* history (SpecSelect): the selector command that wrote current_option
                      \* last, the option it replaced, its handler and the command that
                      \* wrote before it, or NoOrigin
    raised,           \* history (SpecFaulty): the exception raised inside the handler that
                      \* ran in the last step, or ""
    fetch,            \* SecurityCameraClient (SpecClient): whether the client has a session,
                      \* and the last get_snapshot call: what the server did and the result
    encode,           \* SecurityCameraClient (SpecEncode): the optimize_image_for_remote call
                      \* in progress: the quality loop's position and its encodings so far
    driver            \* driver.py (SpecDriver, SpecReinit): config.json's cameras, the
                      \* _camera_entity global, the entity registries, the position of
                      \* _init_integration and of its probes, the open client sessions

vars == <<cameras_config, attributes, remote, current_source, current_client,
          is_streaming, stream_task, tasks, handlers, ready, issued, returned, power_cycle,
          current_option, select_remote, media_player, repeat, origin, raised, fetch, encode, driver>>

\* the selector's variables
selectVars == <<current_option, select_remote, media_player, origin>>

\* the variables of the components beside the two entities
otherVars == <<fetch, encode, driver>>

\* ------------------------------------------------------------- helpers
Range(s) == {s[i] : i \in 1..Len(s)}

H(h) == <<"h", h>>
T(t) == <<"t", t>>

InReady(p) == p \in Range(ready)

\* self.clients: one client per configured camera, keyed by name
clients == Range(cameras_config)

FreeTask == [pc |-> "free", consecutive_failures |-> 0, must_cancel |-> FALSE,
             client |-> None, waiters |-> <<>>, bad_streak |-> 0, fail_streak |-> 0]

\* state0 is history: the STATE attribute when _select_source's first step ran
IdleHandler == [cmd |-> "", arg |-> "", pc |-> "idle", state0 |-> ""]

NoReturn == [cmd |-> "", arg |-> "", res |-> ""]

NoRepeat == [state |-> <<>>]

NoOrigin == [cmd |-> "", from |-> "", by |-> 0, after |-> ""]

\* no optimize_image_for_remote call in progress
NoEncode == [pc |-> "idle", size_at |-> <<>>, max_size_kb |-> 0, quality |-> 0,
             encoded |-> <<>>, failed |-> FALSE]

\* a client that has no session and has fetched nothing yet
NoFetch == [session |-> FALSE, outcome |-> "", status |-> 0, head |-> <<>>, length |-> 0,
            result |-> <<>>, propagated |-> FALSE]

\* driver.py before main() has run: nothing configured, no entity, no probe
NoDriver == [pc |-> "idle", config |-> <<>>, camera_entity |-> <<>>,
             available_entities |-> {}, configured_entities |-> {},
             probes |-> <<>>, sessions |-> {}, result |-> <<>>,
             closing |-> <<>>, recreated |-> FALSE]

Alive(t) == tasks[t].pc \notin {"free", "done"}
LiveTasks == {t \in TaskIds : Alive(t)}

\* ------------------------------------------------------------- Init
\* SecurityCameraMediaPlayer.__init__
InitSource(cfg) == IF Len(cfg) > 0 THEN cfg[1] ELSE ""

InitClient(cfg) ==
    IF InitSource(cfg) # "" /\ InitSource(cfg) \in Range(cfg) THEN InitSource(cfg) ELSE None

Init ==
    /\ cameras_config \in ConfigLists
    /\ attributes = [STATE |-> OFF,
                     SOURCE |-> InitSource(cameras_config),
                     MEDIA_IMAGE_URL |-> "",
                     MEDIA_TITLE |-> InitSource(cameras_config),
                     MEDIA_ARTIST |-> "Camera View"]
    /\ remote = None
    /\ current_source = InitSource(cameras_config)
    /\ current_client = InitClient(cameras_config)
    /\ is_streaming = FALSE
    /\ stream_task = NoTask
    /\ tasks = [t \in TaskIds |-> FreeTask]
    /\ handlers = [h \in HandlerIds |-> IdleHandler]
    /\ ready = <<>>
    /\ issued = 0
    /\ returned = NoReturn
    /\ power_cycle = "none"
    /\ current_option = InitSource(cameras_config)
    /\ select_remote = None
    /\ media_player = TRUE
    /\ repeat = NoRepeat
    /\ origin = NoOrigin
    /\ raised = ""
    /\ fetch = NoFetch
    /\ encode = NoEncode
    /\ driver = NoDriver

\* ------------------------------------------------- operators from the code
\* SecurityCameraMediaPlayer.is_on
is_on(state) == state \in {PLAYING, "ON"}

\* variant: any non-empty name is accepted
SelectSourceValidAnyName(source_name, cl) == source_name # ""

\* _select_source, the validity test of its first statement
SelectSourceValid(source_name, cl) == source_name # "" /\ source_name \in cl

\* variant: the is_streaming test is missing
StartSpawnsWithoutFlagTest(streaming, client) == client # None

\* start_image_streaming: the two early returns; TRUE when a task is created
StartSpawns(streaming, client) == (~streaming) /\ client # None

\* _image_stream_loop: the while condition
LoopCondition(streaming, client) == streaming /\ client # None

\* variant: CancelledError is caught as well (a bare except)
SnapshotCatchesAll(exc) == exc \in {"TimeoutError", "Exception", "CancelledError"}

\* get_snapshot: the exceptions its except clauses turn into "no image"
SnapshotCatches(exc) == exc \in {"TimeoutError", "Exception"}

\* _image_stream_loop: what a CancelledError raised at the suspension point
\* `at` does.  In the fetch it passes through get_snapshot unless caught there;
\* in the fetch and the refresh sleep the loop's `except CancelledError: break`
\* ends the loop; in the back-off sleep (inside the except handler) and before
\* the first step it ends the task directly.
CancelOutcome(at) ==
    IF at = "fetch" /\ SnapshotCatches("CancelledError") THEN "no_image" ELSE "end"

\* variant: a successful tick leaves the counter as it is
NextFailuresNoReset(tick, n) == IF tick = "ok" THEN n ELSE n + 1

\* _image_stream_loop: the counter after a tick
NextFailures(tick, n) == IF tick = "ok" THEN 0 ELSE n + 1

\* _image_stream_loop: `if consecutive_failures >= max_failures`
ThresholdReached(n) == n >= max_failures

\* _handle_stream_failure: the attribute writes
StreamFailureAttributes(a) ==
    [a EXCEPT !.STATE = UNAVAILABLE, !.MEDIA_ARTIST = "Camera Offline", !.MEDIA_IMAGE_URL = ""]

\* variant: an entity still marked "Camera Offline" is not put back to PLAYING
TurnOnAttributesStaysOffline(a, src) ==
    IF a.MEDIA_ARTIST = "Camera Offline"
    THEN [a EXCEPT !.MEDIA_TITLE = src]
    ELSE [a EXCEPT !.STATE = PLAYING, !.MEDIA_TITLE = src]

\* _turn_on: the attribute writes
TurnOnAttributes(a, src) == [a EXCEPT !.STATE = PLAYING, !.MEDIA_TITLE = src]

\* _turn_off: the attribute writes
TurnOffAttributes(a) == [a EXCEPT !.STATE = OFF, !.MEDIA_IMAGE_URL = ""]

\* _select_source: the attribute writes
SelectSourceAttributes(a, src) == [a EXCEPT !.SOURCE = src, !.MEDIA_TITLE = src]

\* ------------------------------------------------- event loop mechanics
\* a finished task is kept only while self.stream_task still refers to it
Gc(ts, st) == [t \in TaskIds |-> IF ts[t].pc = "done" /\ t # st THEN FreeTask ELSE ts[t]]

Reusable(t) == tasks[t].pc \in {"free", "done"}

NewTaskId == CHOOSE t \in TaskIds : Reusable(t) /\ \A u \in TaskIds : Reusable(u) => t <= u

WaiterProcs(w) == [i \in 1..Len(w) |-> H(w[i])]

\* Task.cancel(): no effect on a finished task; otherwise the task is resumed
\* with CancelledError at its next step
CancelTasks(t) ==
    IF tasks[t].pc = "done" THEN tasks ELSE [tasks EXCEPT ![t].must_cancel = TRUE]

CancelReady(q, t) ==
    IF tasks[t].pc = "done" \/ T(t) \in Range(q) THEN q ELSE Append(q, T(t))

\* the task ends: the coroutines awaiting it become runnable
TaskEnds(t) ==
    /\ tasks' = Gc([tasks EXCEPT ![t] = [FreeTask EXCEPT !.pc = "done"]], stream_task)
    /\ ready' = Tail(ready) \o WaiterProcs(tasks[t].waiters)

\* the handler returns `status` to its caller
Returns(h, status) ==
    /\ handlers' = [handlers EXCEPT ![h] = IdleHandler]
    /\ returned' = [cmd |-> handlers[h].cmd, arg |-> handlers[h].arg, res |-> status]
    /\ power_cycle' = IF handlers[h].cmd = "OFF" /\ attributes.STATE = UNAVAILABLE THEN "off"
                      ELSE IF handlers[h].cmd = "ON" /\ status = "OK" /\ power_cycle = "off" THEN "on"
                      ELSE "none"

AtHead(p) == ready # <<>> /\ Head(ready) = p

\* ------------------------------------------------- start / stop
\* start_image_streaming, called with the rest of the ready queue q
StartImageStreaming(q) ==
    IF StartSpawns(is_streaming, current_client)
    THEN /\ \E t \in TaskIds : Reusable(t)
         /\ is_streaming' = TRUE
         /\ stream_task' = NewTaskId
         /\ tasks' = Gc([tasks EXCEPT ![NewTaskId] = [FreeTask EXCEPT !.pc = "start"]], NewTaskId)
         /\ ready' = Append(q, T(NewTaskId))
    ELSE /\ UNCHANGED <<is_streaming, stream_task, tasks>>
         /\ ready' = q

\* stop_image_streaming: TRUE when `await self.stream_task` suspends the caller
StopSuspends == stream_task # NoTask /\ tasks[stream_task].pc # "done"

\* stop_image_streaming up to the await, when it suspends handler h, whose
\* _select_source argument (if it is in _select_source) is source_name
StopAndWaitIn(h, source_name) ==
    /\ is_streaming' = FALSE
    /\ tasks' = [CancelTasks(stream_task) EXCEPT ![stream_task].waiters = Append(@, h)]
    /\ ready' = CancelReady(Tail(ready), stream_task)
    /\ handlers' = [handlers EXCEPT ![h].pc = "stop_await",
                                     ![h].arg = source_name,
                                     ![h].state0 = IF handlers[h].cmd = "SELECT_SOURCE"
                                                   THEN attributes.STATE ELSE @]
    /\ returned' = NoReturn
    /\ power_cycle' = "none"
    /\ UNCHANGED <<cameras_config, issued, attributes, remote, current_source, current_client, stream_task>>

StopAndWait(h) == StopAndWaitIn(h, handlers[h].arg)

\* stop_image_streaming run to its end without suspending
StopAtOnce ==
    /\ is_streaming' = FALSE
    /\ stream_task' = NoTask
    /\ tasks' = Gc(tasks, NoTask)
    /\ ready' = Tail(ready)

\* stop_image_streaming resumed after the await: self.stream_task = None
StopResumed ==
    /\ stream_task' = NoTask
    /\ tasks' = Gc(tasks, NoTask)
    /\ ready' = Tail(ready)
    /\ UNCHANGED is_streaming

\* ------------------------------------------------- command dispatch
\* the first idle one of the handler slots 1..n
FreeSlotIn(n) == CHOOSE h \in 1..n :
                    handlers[h].pc = "idle" /\ \A g \in 1..n : handlers[g].pc = "idle" => h <= g

FreeSlot == FreeSlotIn(MaxHandlers)

\* a command or event arrives: its handler coroutine becomes runnable; at most
\* n handlers are in progress at once and at most `limit` commands are dispatched
DispatchWithin(cmd, arg, n, limit) ==
    /\ issued < limit
    /\ issued' = issued + 1
    /\ \E h \in 1..n : handlers[h].pc = "idle"
    /\ handlers' = [handlers EXCEPT ![FreeSlotIn(n)] =
                                        [cmd |-> cmd, arg |-> arg, pc |-> "begin", state0 |-> ""]]
    /\ ready' = Append(ready, H(FreeSlotIn(n)))
    /\ returned' = NoReturn
    /\ UNCHANGED power_cycle
    /\ UNCHANGED <<cameras_config, attributes, remote, current_source, current_client,
                   is_streaming, stream_task, tasks>>

Dispatch(cmd, arg) == DispatchWithin(cmd, arg, MaxHandlers, MaxCommands)

PowerOn == Dispatch("ON", "")
PowerOff == Dispatch("OFF", "")
SelectSource == \E src \in SourceArgs : Dispatch("SELECT_SOURCE", src)
RemoteDisconnect == Dispatch("DISCONNECT", "")

\* ------------------------------------------------- _turn_on
TurnOn(h) ==
    /\ AtHead(H(h)) /\ handlers[h].cmd = "ON" /\ handlers[h].pc = "begin"
    /\ IF current_client = None
       THEN /\ Returns(h, "BAD_REQUEST")
            /\ ready' = Tail(ready)
            /\ UNCHANGED <<attributes, remote, is_streaming, stream_task, tasks>>
       ELSE /\ attributes' = TurnOnAttributes(attributes, current_source)
            /\ remote' = attributes'
            /\ StartImageStreaming(Tail(ready))
            /\ Returns(h, "OK")
    /\ UNCHANGED <<cameras_config, issued, current_source, current_client>>

\* ------------------------------------------------- _turn_off
TurnOffFinish(h) ==
    /\ attributes' = TurnOffAttributes(attributes)
    /\ remote' = attributes'
    /\ Returns(h, "OK")
    /\ UNCHANGED <<cameras_config, issued, current_source, current_client>>

TurnOff(h) ==
    /\ AtHead(H(h)) /\ handlers[h].cmd = "OFF" /\ handlers[h].pc = "begin"
    /\ IF StopSuspends
       THEN StopAndWait(h)
       ELSE StopAtOnce /\ TurnOffFinish(h)

TurnOffResume(h) ==
    /\ AtHead(H(h)) /\ handlers[h].cmd = "OFF" /\ handlers[h].pc = "stop_await"
    /\ StopResumed
    /\ TurnOffFinish(h)

\* ------------------------------------------------- _select_source
\* from `self.current_source = source_name` to `await asyncio.sleep(0.1)`
SelectSourceSwitchTo(h, source_name) ==
    /\ current_source' = source_name
    /\ current_client' = source_name
    /\ attributes' = SelectSourceAttributes(attributes, source_name)
    /\ remote' = attributes'
    /\ handlers' = [handlers EXCEPT ![h].pc = "settle",
                                     ![h].arg = source_name,
                                     ![h].state0 = IF handlers[h].pc = "begin" THEN attributes.STATE ELSE @]
    /\ returned' = NoReturn
    /\ power_cycle' = "none"
    /\ UNCHANGED <<cameras_config, issued>>

SelectSourceSwitch(h) == SelectSourceSwitchTo(h, handlers[h].arg)

\* the commands whose handlers run _select_source: the media player's
\* SELECT_SOURCE and, through CameraSelect._select_camera, the selector's
SelectorCmds == {"SELECT_OPTION", "SELECT_NEXT", "SELECT_PREVIOUS", "SELECT_FIRST", "SELECT_LAST"}
SourceCmds == {"SELECT_SOURCE"} \cup SelectorCmds

\* _select_source(source_name) called in handler h, up to its first suspension
\* or its early return
SelectSourceCall(h, source_name) ==
    IF ~SelectSourceValid(source_name, clients)
    THEN /\ Returns(h, "BAD_REQUEST")
         /\ ready' = Tail(ready)
         /\ UNCHANGED <<cameras_config, issued, attributes, remote, current_source, current_client,
                        is_streaming, stream_task, tasks>>
    ELSE IF is_streaming
         THEN IF StopSuspends
              THEN StopAndWaitIn(h, source_name)
              ELSE StopAtOnce /\ SelectSourceSwitchTo(h, source_name)
         ELSE /\ ready' = Tail(ready)
              /\ SelectSourceSwitchTo(h, source_name)
              /\ UNCHANGED <<is_streaming, stream_task, tasks>>

SelectSourceBegin(h) ==
    /\ AtHead(H(h)) /\ handlers[h].cmd = "SELECT_SOURCE" /\ handlers[h].pc = "begin"
    /\ SelectSourceCall(h, handlers[h].arg)

SelectSourceResume(h) ==
    /\ AtHead(H(h)) /\ handlers[h].cmd \in SourceCmds /\ handlers[h].pc = "stop_await"
    /\ StopResumed
    /\ SelectSourceSwitch(h)

\* the 0.1 s settle sleep runs out
SettleTimer(h) ==
    /\ returned' = NoReturn
    /\ UNCHANGED power_cycle
    /\ handlers[h].pc = "settle" /\ ~InReady(H(h))
    /\ ready' = Append(ready, H(h))
    /\ UNCHANGED <<cameras_config, issued, attributes, remote, current_source, current_client,
                   is_streaming, stream_task, tasks, handlers>>

SelectSourceSettled(h) ==
    /\ AtHead(H(h)) /\ handlers[h].cmd \in SourceCmds /\ handlers[h].pc = "settle"
    /\ IF is_on(attributes.STATE)
       THEN StartImageStreaming(Tail(ready))
       ELSE /\ ready' = Tail(ready)
            /\ UNCHANGED <<is_streaming, stream_task, tasks>>
    /\ Returns(h, "OK")
    /\ UNCHANGED <<cameras_config, issued, attributes, remote, current_source, current_client>>

\* ------------------------------------------------- driver._on_disconnect
OnDisconnect(h) ==
    /\ AtHead(H(h)) /\ handlers[h].cmd = "DISCONNECT" /\ handlers[h].pc = "begin"
    /\ IF is_streaming
       THEN IF StopSuspends
            THEN StopAndWait(h)
            ELSE /\ StopAtOnce
                 /\ Returns(h, "")
                 /\ UNCHANGED <<cameras_config, issued, attributes, remote, current_source, current_client>>
       ELSE /\ Returns(h, "")
            /\ ready' = Tail(ready)
            /\ UNCHANGED <<cameras_config, issued, attributes, remote, current_source, current_client,
                           is_streaming, stream_task, tasks>>

OnDisconnectResume(h) ==
    /\ AtHead(H(h)) /\ handlers[h].cmd = "DISCONNECT" /\ handlers[h].pc = "stop_await"
    /\ StopResumed
    /\ Returns(h, "")
    /\ UNCHANGED <<cameras_config, issued, attributes, remote, current_source, current_client>>

\* ------------------------------------------------- _image_stream_loop
\* the HTTP response (or error, or timeout) of the pending get_snapshot arrives
FetchDone(t) ==
    /\ returned' = NoReturn
    /\ UNCHANGED power_cycle
    /\ tasks[t].pc = "fetch" /\ ~InReady(T(t))
    /\ ready' = Append(ready, T(t))
    /\ UNCHANGED <<cameras_config, issued, attributes, remote, current_source, current_client,
                   is_streaming, stream_task, tasks, handlers>>

\* the refresh sleep (10 s) or the back-off sleep (5 s) runs out
SleepTimer(t) ==
    /\ returned' = NoReturn
    /\ UNCHANGED power_cycle
    /\ tasks[t].pc \in {"sleep", "backoff"} /\ ~InReady(T(t))
    /\ ready' = Append(ready, T(t))
    /\ UNCHANGED <<cameras_config, issued, attributes, remote, current_source, current_client,
                   is_streaming, stream_task, tasks, handlers>>

\* the task is resumed with CancelledError and ends
StreamLoopCancelled(t) ==
    /\ returned' = NoReturn
    /\ UNCHANGED power_cycle
    /\ AtHead(T(t)) /\ Alive(t) /\ tasks[t].must_cancel
    /\ CancelOutcome(tasks[t].pc) = "end"
    /\ TaskEnds(t)
    /\ UNCHANGED <<cameras_config, issued, attributes, remote, current_source, current_client,
                   is_streaming, stream_task, handlers>>

\* top of the while loop up to the call of get_snapshot: first step of the
\* task, or resumption after the refresh or back-off sleep
StreamLoopIterate(t) ==
    /\ returned' = NoReturn
    /\ UNCHANGED power_cycle
    /\ AtHead(T(t)) /\ tasks[t].pc \in {"start", "sleep", "backoff"} /\ ~tasks[t].must_cancel
    /\ IF LoopCondition(is_streaming, current_client) /\ is_on(attributes.STATE)
       THEN /\ tasks' = [tasks EXCEPT ![t].pc = "fetch", ![t].client = current_client]
            /\ ready' = Tail(ready)
       ELSE TaskEnds(t)
    /\ UNCHANGED <<cameras_config, issued, attributes, remote, current_source, current_client,
                   is_streaming, stream_task, handlers>>

\* the kinds of tick: "ok" image fetched, transcoded and published;
\* "no_image" get_snapshot returned None; "no_transcode" optimize_image_for_remote
\* returned None; "raise" an exception left the try body after the image was stored
TickKinds == {"ok", "no_image", "no_transcode", "raise"}

\* the rest of a tick after get_snapshot has returned; with `track` the history
\* field fail_streak counts the fetch and transcode failures in a row
Tick(t, tick, track) ==
    LET n == NextFailures(tick, tasks[t].consecutive_failures)
        stored == IF tick \in {"ok", "raise"}
                  THEN [attributes EXCEPT !.MEDIA_IMAGE_URL = tasks[t].client]
                  ELSE attributes
        bad == IF tick = "ok" THEN 0 ELSE tasks[t].bad_streak + 1
        fail == IF track /\ tick \in {"no_image", "no_transcode"}
                THEN tasks[t].fail_streak + 1 ELSE 0
    IN  IF ThresholdReached(n)
        THEN \* _handle_stream_failure, then break
             /\ attributes' = StreamFailureAttributes(stored)
             /\ remote' = attributes'
             /\ is_streaming' = FALSE
             /\ TaskEnds(t)
        ELSE /\ attributes' = stored
             /\ remote' = IF tick = "ok" THEN attributes' ELSE remote
             /\ tasks' = [tasks EXCEPT ![t].consecutive_failures = n,
                                       ![t].must_cancel = FALSE,
                                       ![t].bad_streak = bad,
                                       ![t].fail_streak = fail,
                                       ![t].client = None,
                                       ![t].pc = IF tick = "raise" THEN "backoff" ELSE "sleep"]
             /\ ready' = Tail(ready)
             /\ UNCHANGED is_streaming

\* a tick of one of the given kinds
StreamLoopTickOf(t, kinds, track) ==
    /\ returned' = NoReturn
    /\ UNCHANGED power_cycle
    /\ AtHead(T(t)) /\ tasks[t].pc = "fetch"
    /\ IF tasks[t].must_cancel
       THEN CancelOutcome("fetch") = "no_image" /\ Tick(t, "no_image", track)
       ELSE \E tick \in kinds : Tick(t, tick, track)
    /\ UNCHANGED <<cameras_config, issued, current_source, current_client, stream_task, handlers>>

StreamLoopTick(t, track) == StreamLoopTickOf(t, TickKinds, track)

\* ------------------------------------------------- specification
\* a step of the media player alone: the selector is not involved
PlayerOnly ==
    UNCHANGED <<current_option, select_remote, media_player, repeat, origin, raised, otherVars>>

Next ==
    \/ PowerOn /\ PlayerOnly
    \/ PowerOff /\ PlayerOnly
    \/ SelectSource /\ PlayerOnly
    \/ RemoteDisconnect /\ PlayerOnly
    \/ \E h \in HandlerIds : TurnOn(h) /\ PlayerOnly
    \/ \E h \in HandlerIds : TurnOff(h) /\ PlayerOnly
    \/ \E h \in HandlerIds : TurnOffResume(h) /\ PlayerOnly
    \/ \E h \in HandlerIds : SelectSourceBegin(h) /\ PlayerOnly
    \/ \E h \in HandlerIds : SelectSourceResume(h) /\ PlayerOnly
    \/ \E h \in HandlerIds : SettleTimer(h) /\ PlayerOnly
    \/ \E h \in HandlerIds : SelectSourceSettled(h) /\ PlayerOnly
    \/ \E h \in HandlerIds : OnDisconnect(h) /\ PlayerOnly
    \/ \E h \in HandlerIds : OnDisconnectResume(h) /\ PlayerOnly
    \/ \E t \in TaskIds : FetchDone(t) /\ PlayerOnly
    \/ \E t \in TaskIds : SleepTimer(t) /\ PlayerOnly
    \/ \E t \in TaskIds : StreamLoopCancelled(t) /\ PlayerOnly
    \/ \E t \in TaskIds : StreamLoopIterate(t) /\ PlayerOnly
    \/ \E t \in TaskIds : StreamLoopTick(t, FALSE) /\ PlayerOnly

\* the same steps with fail_streak recorded, for runs of one command fewer
NextTracked ==
    \/ PowerOn /\ issued' < MaxCommands /\ PlayerOnly
    \/ PowerOff /\ issued' < MaxCommands /\ PlayerOnly
    \/ SelectSource /\ issued' < MaxCommands /\ PlayerOnly
    \/ RemoteDisconnect /\ issued' < MaxCommands /\ PlayerOnly
    \/ \E h \in HandlerIds : TurnOn(h) /\ PlayerOnly
    \/ \E h \in HandlerIds : TurnOff(h) /\ PlayerOnly
    \/ \E h \in HandlerIds : TurnOffResume(h) /\ PlayerOnly
    \/ \E h \in HandlerIds : SelectSourceBegin(h) /\ PlayerOnly
    \/ \E h \in HandlerIds : SelectSourceResume(h) /\ PlayerOnly
    \/ \E h \in HandlerIds : SettleTimer(h) /\ PlayerOnly
    \/ \E h \in HandlerIds : SelectSourceSettled(h) /\ PlayerOnly
    \/ \E h \in HandlerIds : OnDisconnect(h) /\ PlayerOnly
    \/ \E h \in HandlerIds : OnDisconnectResume(h) /\ PlayerOnly
    \/ \E t \in TaskIds : FetchDone(t) /\ PlayerOnly
    \/ \E t \in TaskIds : SleepTimer(t) /\ PlayerOnly
    \/ \E t \in TaskIds : StreamLoopCancelled(t) /\ PlayerOnly
    \/ \E t \in TaskIds : StreamLoopIterate(t) /\ PlayerOnly
    \/ \E t \in TaskIds : StreamLoopTick(t, TRUE) /\ PlayerOnly

Spec == Init /\ [][Next]_vars

SpecTracked == Init /\ [][NextTracked]_vars

\* longer runs of the power and source commands on reachable cameras (every
\* tick succeeds), with one more handler in progress at once and two more commands
\* what a command is expected to leave alone when it is repeated: power, selected
\* camera, streaming flag and number of live polling tasks
Abstract == <<attributes.STATE, current_source, is_streaming, Cardinality(LiveTasks)>>

\* the command is dispatched; `repeat` records the state when the same command
\* with the same argument has just returned and no handler is in progress
DispatchDeep(cmd, arg) ==
    /\ DispatchWithin(cmd, arg, MaxHandlers + 1, MaxCommands + 2)
    /\ repeat' = IF /\ returned.cmd = cmd /\ returned.arg = arg
                    /\ \A h \in HandlerIds : handlers[h].pc = "idle"
                 THEN [state |-> Abstract]
                 ELSE NoRepeat
    /\ UNCHANGED <<selectVars, raised, otherVars>>

\* `repeat` lasts until a handler returns
KeepRepeat ==
    /\ repeat' = IF returned' = NoReturn THEN repeat ELSE NoRepeat
    /\ UNCHANGED <<selectVars, raised, otherVars>>

PowerOnDeep == DispatchDeep("ON", "")
PowerOffDeep == DispatchDeep("OFF", "")
SelectSourceDeep == \E src \in Names : DispatchDeep("SELECT_SOURCE", src)

NextDeep ==
    \/ PowerOnDeep
    \/ PowerOffDeep
    \/ SelectSourceDeep
    \/ \E h \in HandlerIds : TurnOn(h) /\ KeepRepeat
    \/ \E h \in HandlerIds : TurnOff(h) /\ KeepRepeat
    \/ \E h \in HandlerIds : TurnOffResume(h) /\ KeepRepeat
    \/ \E h \in HandlerIds : SelectSourceBegin(h) /\ KeepRepeat
    \/ \E h \in HandlerIds : SelectSourceResume(h) /\ KeepRepeat
    \/ \E h \in HandlerIds : SettleTimer(h) /\ KeepRepeat
    \/ \E h \in HandlerIds : SelectSourceSettled(h) /\ KeepRepeat
    \/ \E t \in TaskIds : FetchDone(t) /\ KeepRepeat
    \/ \E t \in TaskIds : SleepTimer(t) /\ KeepRepeat
    \/ \E t \in TaskIds : StreamLoopCancelled(t) /\ KeepRepeat
    \/ \E t \in TaskIds : StreamLoopIterate(t) /\ KeepRepeat
    \/ \E t \in TaskIds : StreamLoopTickOf(t, {"ok"}, FALSE) /\ KeepRepeat

SpecDeep == Init /\ [][NextDeep]_vars

\* ------------------------------------------------- CameraSelect
\* The selector entity of camera_select.py, attached to the media player.
SelectNames == {"A", "B", "C"}
OptionArgs == SelectNames \cup {"X", ""}     \* "X": unknown name, "": missing / empty parameter
SelectConfigLists == {<<>>, <<"A">>, <<"A", "B">>, <<"A", "B", "C">>}

\* attributes[OPTIONS]: the configured camera names, in order
options == cameras_config

\* CameraSelect.__init__ beside SecurityCameraMediaPlayer.__init__; the selector
\* is built with a reference to the media player or with none
InitSelect ==
    /\ cameras_config \in SelectConfigLists
    /\ attributes = [STATE |-> OFF,
                     SOURCE |-> InitSource(cameras_config),
                     MEDIA_IMAGE_URL |-> "",
                     MEDIA_TITLE |-> InitSource(cameras_config),
                     MEDIA_ARTIST |-> "Camera View"]
    /\ remote = None
    /\ current_source = InitSource(cameras_config)
    /\ current_client = InitClient(cameras_config)
    /\ is_streaming = FALSE
    /\ stream_task = NoTask
    /\ tasks = [t \in TaskIds |-> FreeTask]
    /\ handlers = [h \in HandlerIds |-> IdleHandler]
    /\ ready = <<>>
    /\ issued = 0
    /\ returned = NoReturn
    /\ power_cycle = "none"
    /\ current_option = InitSource(cameras_config)
    /\ select_remote = None
    /\ media_player \in BOOLEAN
    /\ repeat = NoRepeat
    /\ origin = NoOrigin
    /\ raised = ""
    /\ fetch = NoFetch
    /\ encode = NoEncode
    /\ driver = NoDriver

\* list.index(x) + 1: the first position of x in opts, 0 when index raises ValueError
IndexOf(opts, x) ==
    IF x \in Range(opts)
    THEN CHOOSE i \in 1..Len(opts) : opts[i] = x /\ \A j \in 1..(i - 1) : opts[j] # x
    ELSE 0

\* variant: no wrap-around below the first position
PrevIndexClamped(i, n) == IF i = 1 THEN 1 ELSE i - 1

\* (current_index - 1) % len(options), positions counted from 1
PrevIndex(i, n) == ((i - 2) % n) + 1

\* (current_index + 1) % len(options), positions counted from 1
NextIndex(i, n) == (i % n) + 1

\* variant: any non-empty name is accepted
SelectCameraValidAnyName(camera_name, opts) == camera_name # ""

\* _select_camera, the validity test of its first statement
SelectCameraValid(camera_name, opts) == camera_name # "" /\ camera_name \in Range(opts)

\* variant: the failures of the _select_*_camera methods are not turned into
\* SERVER_ERROR, an empty name goes on to _select_camera
SelectTargetUnguarded(cmd, arg) ==
    CASE cmd = "SELECT_OPTION" -> arg
      [] cmd = "SELECT_NEXT" ->
            IF IndexOf(options, current_option) = 0 THEN ""
            ELSE options[NextIndex(IndexOf(options, current_option), Len(options))]
      [] cmd = "SELECT_PREVIOUS" ->
            IF IndexOf(options, current_option) = 0 THEN ""
            ELSE options[PrevIndex(IndexOf(options, current_option), Len(options))]
      [] cmd = "SELECT_FIRST" -> IF options = <<>> THEN "" ELSE options[1]
      [] cmd = "SELECT_LAST" -> IF options = <<>> THEN "" ELSE options[Len(options)]

\* the name handle_command passes to _select_camera for command cmd with
\* parameter arg, or None when the _select_*_camera method returns SERVER_ERROR
\* before calling it
SelectTarget(cmd, arg) ==
    CASE cmd = "SELECT_OPTION" -> arg
      [] cmd = "SELECT_NEXT" ->
            IF IndexOf(options, current_option) = 0 THEN None
            ELSE options[NextIndex(IndexOf(options, current_option), Len(options))]
      [] cmd = "SELECT_PREVIOUS" ->
            IF IndexOf(options, current_option) = 0 THEN None
            ELSE options[PrevIndex(IndexOf(options, current_option), Len(options))]
      [] cmd = "SELECT_FIRST" -> IF options = <<>> THEN None ELSE options[1]
      [] cmd = "SELECT_LAST" -> IF options = <<>> THEN None ELSE options[Len(options)]

\* a step in which the selector's own state is left alone
SelectorKept == UNCHANGED <<current_option, select_remote, origin>>

\* _select_camera(camera_name) in handler h, up to the first suspension of the
\* media player's _select_source or to its own return
SelectCamera(h, camera_name) ==
    IF ~SelectCameraValid(camera_name, options)
    THEN /\ Returns(h, "BAD_REQUEST")
         /\ ready' = Tail(ready)
         /\ SelectorKept
         /\ UNCHANGED <<cameras_config, issued, attributes, remote, current_source, current_client,
                        is_streaming, stream_task, tasks>>
    ELSE /\ current_option' = camera_name
         /\ select_remote' = camera_name
         /\ origin' = [cmd |-> handlers[h].cmd, from |-> current_option, by |-> h,
                        after |-> origin.cmd]
         /\ IF media_player
            THEN SelectSourceCall(h, camera_name)
            ELSE /\ Returns(h, "SERVER_ERROR")
                 /\ ready' = Tail(ready)
                 /\ UNCHANGED <<cameras_config, issued, attributes, remote, current_source,
                                current_client, is_streaming, stream_task, tasks>>

\* CameraSelect.handle_command: the first step of a selector command's handler
SelectHandle(h) ==
    /\ AtHead(H(h)) /\ handlers[h].cmd \in SelectorCmds /\ handlers[h].pc = "begin"
    /\ IF SelectTarget(handlers[h].cmd, handlers[h].arg) = None
       THEN /\ Returns(h, "SERVER_ERROR")
            /\ ready' = Tail(ready)
            /\ SelectorKept
            /\ UNCHANGED <<cameras_config, issued, attributes, remote, current_source,
                           current_client, is_streaming, stream_task, tasks>>
       ELSE SelectCamera(h, SelectTarget(handlers[h].cmd, handlers[h].arg))
    /\ UNCHANGED media_player

\* variant: the name is mirrored without the membership test
UpdateAcceptsAnyName(camera_name, opts) == TRUE

\* update_from_media_player: `if camera_name in self.attributes[Attributes.OPTIONS]`
UpdateAccepts(camera_name, opts) == camera_name \in Range(opts)

\* update_from_media_player(camera_name): a plain call, it runs between two
\* steps of the event loop; it counts as one of the run's events
UpdateFromMediaPlayer(camera_name) ==
    /\ issued < MaxCommands - 1
    /\ issued' = issued + 1
    /\ IF UpdateAccepts(camera_name, options)
       THEN /\ current_option' = camera_name
            /\ select_remote' = camera_name
       ELSE UNCHANGED <<current_option, select_remote>>
    /\ origin' = NoOrigin
    /\ returned' = [cmd |-> "update_from_media_player", arg |-> camera_name, res |-> None]
    /\ UNCHANGED <<cameras_config, attributes, remote, current_source, current_client,
                   is_streaming, stream_task, tasks, handlers, ready, power_cycle,
                   media_player, repeat, raised, otherVars>>

\* a command arrives while the selector exists; SpecSelect dispatches one
\* command fewer than Spec
DispatchSelect(cmd, arg) == DispatchWithin(cmd, arg, MaxHandlers, MaxCommands - 1) /\ PlayerOnly

SelectOption == \E name \in OptionArgs : DispatchSelect("SELECT_OPTION", name)
SelectNext == DispatchSelect("SELECT_NEXT", "")
SelectPrevious == DispatchSelect("SELECT_PREVIOUS", "")
SelectFirst == DispatchSelect("SELECT_FIRST", "")
SelectLast == DispatchSelect("SELECT_LAST", "")
SelectSourceDirect == \E src \in SelectNames : DispatchSelect("SELECT_SOURCE", src)
PowerOnSelect == DispatchSelect("ON", "")
ExternalSourceChange == \E name \in SelectNames \cup {"X"} : UpdateFromMediaPlayer(name)

NextSelect ==
    \/ SelectOption
    \/ SelectNext
    \/ SelectPrevious
    \/ SelectFirst
    \/ SelectLast
    \/ SelectSourceDirect
    \/ PowerOnSelect
    \/ ExternalSourceChange
    \/ \E h \in HandlerIds : SelectHandle(h) /\ UNCHANGED <<repeat, raised, otherVars>>
    \/ \E h \in HandlerIds : TurnOn(h) /\ PlayerOnly
    \/ \E h \in HandlerIds : SelectSourceBegin(h) /\ PlayerOnly
    \/ \E h \in HandlerIds : SelectSourceResume(h) /\ PlayerOnly
    \/ \E h \in HandlerIds : SettleTimer(h) /\ PlayerOnly
    \/ \E h \in HandlerIds : SelectSourceSettled(h) /\ PlayerOnly
    \/ \E t \in TaskIds : FetchDone(t) /\ PlayerOnly
    \/ \E t \in TaskIds : SleepTimer(t) /\ PlayerOnly
    \/ \E t \in TaskIds : StreamLoopCancelled(t) /\ PlayerOnly
    \/ \E t \in TaskIds : StreamLoopIterate(t) /\ PlayerOnly
    \/ \E t \in TaskIds : StreamLoopTickOf(t, {"ok"}, FALSE) /\ PlayerOnly

SpecSelect == InitSelect /\ [][NextSelect]_vars

\* ------------------------------------------------- handlers that raise
\* configured_entities.update_attributes (or contains) may raise inside
\* _update_remote_state; the exception travels up to handle_command.
PublishErrors == {"Exception", "TimeoutError"}     \* subclasses of Exception
\* commands handle_command has no branch for: sent to the media player, to the selector
UnsupportedCmds == {"PLAY_PAUSE", "TOGGLE"}

\* variant: handle_command has no except clause
HandleCommandCatchesNothing(exc) == FALSE

\* handle_command: `except Exception`
HandleCommandCatches(exc) == exc \in {"Exception", "TimeoutError"}

\* exception exc leaves the coroutine of handler h: handle_command returns
\* SERVER_ERROR if it catches it, otherwise the caller receives the exception
Raises(h, exc) ==
    /\ Returns(h, IF HandleCommandCatches(exc) THEN "SERVER_ERROR" ELSE "raised")
    /\ raised' = exc
    /\ UNCHANGED otherVars

\* a step in which no handler raises
NoRaise == raised' = "" /\ UNCHANGED <<selectVars, repeat, otherVars>>

\* _turn_on when _update_remote_state raises: the attributes are written, the
\* publish and start_image_streaming are not reached
TurnOnRaises(h, exc) ==
    /\ AtHead(H(h)) /\ handlers[h].cmd = "ON" /\ handlers[h].pc = "begin"
    /\ current_client # None
    /\ attributes' = TurnOnAttributes(attributes, current_source)
    /\ ready' = Tail(ready)
    /\ Raises(h, exc)
    /\ UNCHANGED <<cameras_config, issued, remote, current_source, current_client,
                   is_streaming, stream_task, tasks>>

\* _turn_off from `self.attributes[STATE] = OFF` on, when _update_remote_state raises
TurnOffFinishRaises(h, exc) ==
    /\ attributes' = TurnOffAttributes(attributes)
    /\ Raises(h, exc)
    /\ UNCHANGED <<cameras_config, issued, remote, current_source, current_client>>

TurnOffRaises(h, exc) ==
    /\ AtHead(H(h)) /\ handlers[h].cmd = "OFF"
    /\ \/ handlers[h].pc = "begin" /\ ~StopSuspends /\ StopAtOnce
       \/ handlers[h].pc = "stop_await" /\ StopResumed
    /\ TurnOffFinishRaises(h, exc)

\* _select_source from `self.current_source = source_name` on, when
\* _update_remote_state raises: the settle sleep and the restart are not reached
SelectSourceSwitchRaises(h, source_name, exc) ==
    /\ current_source' = source_name
    /\ current_client' = source_name
    /\ attributes' = SelectSourceAttributes(attributes, source_name)
    /\ Raises(h, exc)
    /\ UNCHANGED <<cameras_config, issued, remote>>

\* _select_source(source_name) called in handler h and raising before its
\* first suspension
SelectSourceCallRaises(h, source_name, exc) ==
    /\ SelectSourceValid(source_name, clients)
    /\ \/ /\ is_streaming /\ ~StopSuspends
          /\ StopAtOnce
       \/ /\ ~is_streaming
          /\ ready' = Tail(ready)
          /\ UNCHANGED <<is_streaming, stream_task, tasks>>
    /\ SelectSourceSwitchRaises(h, source_name, exc)

\* SELECT_SOURCE raising in its first step
SelectSourceRaises(h, exc) ==
    /\ AtHead(H(h)) /\ handlers[h].cmd = "SELECT_SOURCE" /\ handlers[h].pc = "begin"
    /\ SelectSourceCallRaises(h, handlers[h].arg, exc)
    /\ UNCHANGED <<selectVars, repeat>>

\* _select_source raising after stop_image_streaming has resumed, in a
\* SELECT_SOURCE handler or in a selector handler
SelectSourceResumeRaises(h, exc) ==
    /\ AtHead(H(h)) /\ handlers[h].cmd \in SourceCmds /\ handlers[h].pc = "stop_await"
    /\ StopResumed
    /\ SelectSourceSwitchRaises(h, handlers[h].arg, exc)
    /\ UNCHANGED <<selectVars, repeat>>

\* _select_camera when the selector's own _update_remote_state raises: the
\* option is written, the media player is not called
SelectCameraRaises(h, exc) ==
    /\ AtHead(H(h)) /\ handlers[h].cmd \in SelectorCmds /\ handlers[h].pc = "begin"
    /\ SelectTarget(handlers[h].cmd, handlers[h].arg) # None
    /\ SelectCameraValid(SelectTarget(handlers[h].cmd, handlers[h].arg), options)
    /\ current_option' = SelectTarget(handlers[h].cmd, handlers[h].arg)
    /\ origin' = [cmd |-> handlers[h].cmd, from |-> current_option, by |-> h,
                   after |-> origin.cmd]
    /\ ready' = Tail(ready)
    /\ Raises(h, exc)
    /\ UNCHANGED <<cameras_config, issued, attributes, remote, current_source, current_client,
                   is_streaming, stream_task, tasks, select_remote, media_player, repeat>>

\* _select_camera when the media player's _select_source raises before its
\* first suspension: the exception passes through _select_camera
SelectPlayerRaises(h, exc) ==
    /\ AtHead(H(h)) /\ handlers[h].cmd \in SelectorCmds /\ handlers[h].pc = "begin"
    /\ SelectTarget(handlers[h].cmd, handlers[h].arg) # None
    /\ SelectCameraValid(SelectTarget(handlers[h].cmd, handlers[h].arg), options)
    /\ media_player
    /\ current_option' = SelectTarget(handlers[h].cmd, handlers[h].arg)
    /\ select_remote' = current_option'
    /\ origin' = [cmd |-> handlers[h].cmd, from |-> current_option, by |-> h,
                   after |-> origin.cmd]
    /\ SelectSourceCallRaises(h, SelectTarget(handlers[h].cmd, handlers[h].arg), exc)
    /\ UNCHANGED <<media_player, repeat>>

\* handle_command, the else branch: an unsupported command
Unsupported(h) ==
    /\ AtHead(H(h)) /\ handlers[h].cmd \in UnsupportedCmds /\ handlers[h].pc = "begin"
    /\ Returns(h, "BAD_REQUEST")
    /\ ready' = Tail(ready)
    /\ UNCHANGED <<cameras_config, issued, attributes, remote, current_source, current_client,
                   is_streaming, stream_task, tasks>>

UnsupportedCommand == \E cmd \in UnsupportedCmds : Dispatch(cmd, "")
SelectSourceNamed == \E src \in Names \cup {"X"} : Dispatch("SELECT_SOURCE", src)
SelectOptionNamed == \E name \in Names : Dispatch("SELECT_OPTION", name)

NextFaulty ==
    \/ PowerOn /\ NoRaise
    \/ PowerOff /\ NoRaise
    \/ SelectSourceNamed /\ NoRaise
    \/ UnsupportedCommand /\ NoRaise
    \/ SelectOptionNamed /\ NoRaise
    \/ \E h \in HandlerIds : SelectHandle(h) /\ raised' = "" /\ UNCHANGED <<repeat, otherVars>>
    \/ \E h \in HandlerIds : TurnOn(h) /\ NoRaise
    \/ \E h \in HandlerIds : TurnOff(h) /\ NoRaise
    \/ \E h \in HandlerIds : TurnOffResume(h) /\ NoRaise
    \/ \E h \in HandlerIds : SelectSourceBegin(h) /\ NoRaise
    \/ \E h \in HandlerIds : SelectSourceResume(h) /\ NoRaise
    \/ \E h \in HandlerIds : SettleTimer(h) /\ NoRaise
    \/ \E h \in HandlerIds : SelectSourceSettled(h) /\ NoRaise
    \/ \E h \in HandlerIds : Unsupported(h) /\ NoRaise
    \/ \E h \in HandlerIds, exc \in PublishErrors : TurnOnRaises(h, exc) /\ UNCHANGED <<selectVars, repeat>>
    \/ \E h \in HandlerIds, exc \in PublishErrors : TurnOffRaises(h, exc) /\ UNCHANGED <<selectVars, repeat>>
    \/ \E h \in HandlerIds, exc \in PublishErrors : SelectSourceRaises(h, exc)
    \/ \E h \in HandlerIds, exc \in PublishErrors : SelectSourceResumeRaises(h, exc)
    \/ \E h \in HandlerIds, exc \in PublishErrors : SelectCameraRaises(h, exc)
    \/ \E h \in HandlerIds, exc \in PublishErrors : SelectPlayerRaises(h, exc)
    \/ \E t \in TaskIds : FetchDone(t) /\ NoRaise
    \/ \E t \in TaskIds : SleepTimer(t) /\ NoRaise
    \/ \E t \in TaskIds : StreamLoopCancelled(t) /\ NoRaise
    \/ \E t \in TaskIds : StreamLoopIterate(t) /\ NoRaise
    \/ \E t \in TaskIds : StreamLoopTickOf(t, {"ok"}, FALSE) /\ NoRaise

SpecFaulty == Init /\ [][NextFaulty]_vars

\* ------------------------------------------------- SecurityCameraClient
\* A response body is its first bytes (head) and its length in bytes.
MinImageBytes == 1000                               \* client.py:119
JpegMarker == <<255, 216, 255>>                     \* b'\xff\xd8\xff'
PngSignature == <<137, 80, 78, 71, 13, 10, 26, 10>> \* b'\x89PNG\r\n\x1a\n'

Heads == {<<255, 216, 255, 224>>, PngSignature, <<137, 80, 78, 71, 13, 10, 26>>,
          <<255, 216>>, <<255, 216, 0, 255>>, <<0, 255, 216, 255>>, <<71, 73, 70, 56>>, <<>>}
Lengths == {0, 2, 4, 8, 999, 1000, 1001, 4096}
Statuses == {200, 204, 301, 404, 500}
FetchErrors == {"TimeoutError", "Exception", "CancelledError"}

\* bytes.startswith
StartsWith(data, prefix) ==
    Len(data) >= Len(prefix) /\ SubSeq(data, 1, Len(prefix)) = prefix

\* variant: a body of exactly the threshold length passes
IsValidImageFromThreshold(body) ==
    IF StartsWith(body.head, JpegMarker) THEN body.length >= MinImageBytes
    ELSE IF StartsWith(body.head, PngSignature) THEN body.length >= MinImageBytes
    ELSE FALSE

\* _is_valid_image
IsValidImage(body) ==
    IF StartsWith(body.head, JpegMarker) THEN body.length > MinImageBytes
    ELSE IF StartsWith(body.head, PngSignature) THEN body.length > MinImageBytes
    ELSE FALSE

\* get_snapshot from `async with self.session.get(...)` on, for a response
\* with this status and body: <<body>> when the bytes are returned, <<>> for None
SnapshotOf(status, body) ==
    IF status = 200 THEN IF IsValidImage(body) THEN <<body>> ELSE <<>>
    ELSE <<>>

\* get_snapshot when the client has no session and connect() fails
GetSnapshotNoSession ==
    /\ ~fetch.session
    /\ fetch' = [NoFetch EXCEPT !.outcome = "connect_failed"]

\* get_snapshot when the request or the read of the body raises exc
GetSnapshotRaises(exc) ==
    fetch' = [NoFetch EXCEPT !.session = TRUE, !.outcome = exc,
                             !.propagated = ~SnapshotCatches(exc)]

\* get_snapshot when the server answers
GetSnapshotResponse(status, head, length) ==
    /\ length >= Len(head)
    /\ fetch' = [session |-> TRUE, outcome |-> "response", status |-> status, head |-> head,
                 length |-> length, propagated |-> FALSE,
                 result |-> SnapshotOf(status, [head |-> head, length |-> length])]

\* disconnect(): the session is closed and forgotten
ClientDisconnect ==
    /\ fetch.session
    /\ fetch' = [fetch EXCEPT !.session = FALSE]

\* a step of the client alone
ClientOnly ==
    UNCHANGED <<cameras_config, attributes, remote, current_source, current_client,
                is_streaming, stream_task, tasks, handlers, ready, issued, returned,
                power_cycle, selectVars, repeat, raised>>

NextClient ==
    \/ GetSnapshotNoSession /\ ClientOnly /\ UNCHANGED <<encode, driver>>
    \/ \E exc \in FetchErrors : GetSnapshotRaises(exc) /\ ClientOnly /\ UNCHANGED <<encode, driver>>
    \/ \E status \in Statuses, head \in Heads, length \in Lengths :
          GetSnapshotResponse(status, head, length) /\ ClientOnly /\ UNCHANGED <<encode, driver>>
    \/ ClientDisconnect /\ ClientOnly /\ UNCHANGED <<encode, driver>>

SpecClient == Init /\ [][NextClient]_vars

\* ------------------------------------------------- optimize_image_for_remote
InitialQuality == 85                                \* client.py:150
QualityFloor == 20                                  \* client.py:153
QualityStep == 10                                   \* client.py:169
BytesPerKb == 1024                                  \* client.py:165

\* the qualities a JPEG encoding may be asked for, and the sizes in bytes an
\* encoding may have; an image is the size of its encoding at each quality
Qualities == {15, 20, 25, 35, 45, 55, 65, 75, 85}
Sizes == {81920, 81921}                             \* 80 KB, and one byte more
SizeLimits == {80}                                  \* media_player.py:253
Images == [Qualities -> Sizes]

\* variant: the loop goes on below the floor
KeepsEncodingBelowFloor(quality) == quality > 10

\* `while quality > 20`
KeepsEncoding(quality) == quality > QualityFloor

\* `size_kb = output_buffer.tell() / 1024; if size_kb <= max_size_kb`
Fits(bytes, max_size_kb) == bytes <= max_size_kb * BytesPerKb

\* optimize_image_for_remote(image_data, max_size_kb) up to the quality loop
OptimizeBegin(image, max_size_kb) ==
    /\ encode.pc = "idle"
    /\ encode' = [pc |-> "loop", size_at |-> image, max_size_kb |-> max_size_kb,
                  quality |-> InitialQuality, encoded |-> <<>>, failed |-> FALSE]

\* Image.open, resize or convert raises: the except clause returns None
OptimizeFails ==
    /\ encode.pc = "idle"
    /\ encode' = [NoEncode EXCEPT !.pc = "done", !.failed = TRUE]

\* one test of the while condition and, if it holds, one pass of the loop body:
\* the buffer is emptied, the image is saved into it at `quality`
EncodeStep ==
    /\ encode.pc = "loop"
    /\ IF KeepsEncoding(encode.quality)
       THEN IF Fits(encode.size_at[encode.quality], encode.max_size_kb)
            THEN encode' = [encode EXCEPT !.encoded = Append(@, encode.quality),
                                          !.pc = "done"]
            ELSE encode' = [encode EXCEPT !.encoded = Append(@, encode.quality),
                                          !.quality = @ - QualityStep]
       ELSE encode' = [encode EXCEPT !.pc = "done"]

\* the call has returned; the next call starts afresh
OptimizeReturn ==
    /\ encode.pc = "done"
    /\ encode' = NoEncode

\* the quality of the encoding left in output_buffer, which is what is returned
EmittedQuality == encode.encoded[Len(encode.encoded)]

\* its size in bytes
EmittedBytes == encode.size_at[EmittedQuality]

NextEncode ==
    \/ \E image \in Images, max_size_kb \in SizeLimits :
          OptimizeBegin(image, max_size_kb) /\ ClientOnly /\ UNCHANGED <<fetch, driver>>
    \/ OptimizeFails /\ ClientOnly /\ UNCHANGED <<fetch, driver>>
    \/ EncodeStep /\ ClientOnly /\ UNCHANGED <<fetch, driver>>
    \/ OptimizeReturn /\ ClientOnly /\ UNCHANGED <<fetch, driver>>

SpecEncode == Init /\ [][NextEncode]_vars

TypeOK ==
    /\ cameras_config \in ConfigLists
    /\ attributes.STATE \in {OFF, PLAYING, UNAVAILABLE}
    /\ is_streaming \in BOOLEAN
    /\ stream_task \in TaskIds \cup {NoTask}
    /\ \A t \in TaskIds : tasks[t].consecutive_failures \in 0..(max_failures - 1)
    /\ \A i, j \in 1..Len(ready) : i # j => ready[i] # ready[j]

\* ------------------------------------------------- step predicates
\* coroutine p is taken from the head of the ready queue and run in this step
Ran(p) == AtHead(p) /\ p \notin Range(ready')

\* handler h runs in this step
Runs(h) == Ran(H(h))

NoSelectInProgress == \A h \in HandlerIds : handlers[h].cmd # "SELECT_SOURCE"

\* task t completes a tick in this step with the image stored and published
SuccessfulTick(t) ==
    /\ Ran(T(t)) /\ tasks[t].pc = "fetch"
    /\ tasks'[t].pc = "sleep" /\ tasks'[t].bad_streak = 0

\* ------------------------------------------------- claims
\* C1: at any time at most one _image_stream_loop task that has not yet
\* terminated exists for the media player.
C1_AtMostOneLoopTask == Cardinality(LiveTasks) <= 1

\* C2: while no SelectSource is in progress (so after the last SelectSource(B)
\* has returned), every image written to MEDIA_IMAGE_URL and published was
\* fetched through the client of the selected camera.
C2_NoStaleImage ==
    [][\A t \in TaskIds :
          (NoSelectInProgress /\ SuccessfulTick(t))
              => (attributes'.MEDIA_IMAGE_URL = current_source /\ remote' = attributes')]_vars

\* C3: is_streaming implies that the STATE attribute is PLAYING or ON.
C3_StreamingImpliesOn == is_streaming => is_on(attributes.STATE)

\* C4: with a non-empty camera list, current_source is a configured camera,
\* current_client is the client of that camera and SOURCE equals current_source.
C4_SelectedCameraConfigured ==
    cameras_config # <<>> =>
        /\ current_source \in clients
        /\ current_client = current_source
        /\ attributes.SOURCE = current_source

\* C4 witness: a SelectSource to the second camera has returned OK while on
C4_Witness ==
    /\ returned = [cmd |-> "SELECT_SOURCE", arg |-> "B", res |-> "OK"]
    /\ current_source = "B"
    /\ attributes.STATE = PLAYING

C6_PowerCycleResumes ==
    [][\A h \in HandlerIds :
          (power_cycle = "off" /\ Runs(h) /\ handlers[h].cmd = "ON" /\ handlers[h].pc = "begin")
          => /\ returned'.res = "OK"
             /\ attributes'.STATE = PLAYING
             /\ is_streaming'
             /\ stream_task' # NoTask
             /\ stream_task' \notin LiveTasks
             /\ tasks'[stream_task'].pc = "start"
             /\ tasks'[stream_task'].consecutive_failures = 0
             /\ {t \in TaskIds : tasks'[t].pc \notin {"free", "done"}} = LiveTasks \cup {stream_task'}]_vars

\* C6 witness: the power cycle from UNAVAILABLE has completed
C6_Witness ==
    /\ power_cycle = "on"
    /\ attributes.STATE = PLAYING
    /\ stream_task # NoTask /\ tasks[stream_task].pc = "start"

\* C7: when a SelectSource that was called while the entity was UNAVAILABLE
\* returns, STATE is no longer UNAVAILABLE and a polling task is alive.
C7_SelectSourceRecovers ==
    [][\A h \in HandlerIds :
          (Runs(h) /\ handlers[h].cmd = "SELECT_SOURCE" /\ handlers[h].pc = "settle"
              /\ handlers[h].state0 = UNAVAILABLE)
          => /\ attributes'.STATE # UNAVAILABLE
             /\ \E t \in TaskIds : tasks'[t].pc \notin {"free", "done"}]_vars

\* C8: when stop_image_streaming returns, also after having been suspended in
\* its await, stream_task is None, no polling task is alive and the flag is
\* clear, so that the next start_image_streaming spawns a task.
C8_StopLeavesNoTask ==
    [][\A h \in HandlerIds :
          (Runs(h) /\ handlers[h].pc = "stop_await")
          => /\ stream_task' = NoTask
             /\ \A t \in TaskIds : tasks'[t].pc \in {"free", "done"}
             /\ ~is_streaming']_vars

C10_CancelIsNotFailure ==
    [][\A t \in TaskIds :
          (Ran(T(t)) /\ tasks[t].pc \notin {"free", "done"} /\ tasks[t].must_cancel)
          => /\ tasks'[t].pc \in {"free", "done"}
             /\ attributes' = attributes
             /\ remote' = remote
             /\ is_streaming' = is_streaming]_vars

\* C10 witness: a cancellation is pending on a loop that waits in its back-off sleep
C10_Witness ==
    \E t \in TaskIds : tasks[t].must_cancel /\ tasks[t].pc = "backoff"
                          /\ tasks[t].consecutive_failures > 0

\* further points at which a cancellation can arrive
C10_CancelInFetch == \E t \in TaskIds : tasks[t].must_cancel /\ tasks[t].pc = "fetch"
C10_CancelInSleep == \E t \in TaskIds : tasks[t].must_cancel /\ tasks[t].pc = "sleep"

\* C12: when PowerOff returns, whatever the state before, the result is OK,
\* STATE is OFF, is_streaming is False and the displayed image is empty.
C12_PowerOffPostcondition ==
    [][\A h \in HandlerIds :
          (Runs(h) /\ handlers[h].cmd = "OFF" /\ returned'.cmd = "OFF")
          => /\ returned'.res = "OK"
             /\ attributes'.STATE = OFF
             /\ attributes'.MEDIA_IMAGE_URL = ""
             /\ ~is_streaming']_vars

\* C13: SelectSource with a name that is not a configured camera (unknown, empty
\* or missing) returns BAD_REQUEST in its first step and leaves the selected
\* camera, the client, the attributes, what was published, the streaming flag
\* and the polling tasks as they are.
C13_InvalidSourceChangesNothing ==
    [][\A h \in HandlerIds :
          (Runs(h) /\ handlers[h].cmd = "SELECT_SOURCE" /\ handlers[h].pc = "begin"
              /\ handlers[h].arg \notin Range(cameras_config))
          => /\ returned' = [cmd |-> "SELECT_SOURCE", arg |-> handlers[h].arg, res |-> "BAD_REQUEST"]
             /\ UNCHANGED <<current_source, current_client, attributes, remote,
                            is_streaming, stream_task, tasks>>]_vars

\* C13 witness: an unknown name has been refused while the loop is polling
C13_Witness ==
    /\ returned = [cmd |-> "SELECT_SOURCE", arg |-> "X", res |-> "BAD_REQUEST"]
    /\ is_streaming /\ attributes.STATE = PLAYING
    /\ stream_task # NoTask /\ tasks[stream_task].pc = "fetch"

\* further refused arguments
C13_EmptyRefused == returned = [cmd |-> "SELECT_SOURCE", arg |-> "", res |-> "BAD_REQUEST"]

\* C11: PowerOn with no camera selected returns BAD_REQUEST and changes
\* nothing; otherwise it returns OK, STATE is PLAYING and published, and a
\* polling task is alive when it returns.
C11_PowerOnContract ==
    [][\A h \in HandlerIds :
          (Runs(h) /\ handlers[h].cmd = "ON" /\ handlers[h].pc = "begin")
          => IF current_client = None
             THEN /\ returned'.res = "BAD_REQUEST"
                  /\ UNCHANGED <<current_source, current_client, attributes, remote,
                                 is_streaming, stream_task, tasks>>
             ELSE /\ returned'.res = "OK"
                  /\ attributes'.STATE = PLAYING
                  /\ remote' = attributes'
                  /\ is_streaming'
                  /\ \E t \in TaskIds : tasks'[t].pc \notin {"free", "done"}]_vars

\* C14: when a valid SelectSource returns after its settle delay, then with
\* STATE on (PLAYING/ON) the entity is streaming and a polling task is alive, and
\* with STATE not on no task is created and the tasks stay as they are.
C14_RestartOnlyWhenOn ==
    [][\A h \in HandlerIds :
          (Runs(h) /\ handlers[h].cmd = "SELECT_SOURCE" /\ handlers[h].pc = "settle")
          => /\ returned'.res = "OK"
             /\ IF is_on(attributes.STATE)
                THEN /\ is_streaming'
                     /\ \E t \in TaskIds : tasks'[t].pc \notin {"free", "done"}
                ELSE tasks' = tasks /\ stream_task' = stream_task]_vars

\* C15: a command dispatched again with the same argument right after it has
\* returned, with no other handler in progress meanwhile, returns in the state in
\* which it was dispatched: same STATE, selected camera, streaming flag and
\* number of live polling tasks as after the first execution.
C15_RepeatedCommandIdempotent ==
    [][\A h \in HandlerIds :
          (Runs(h) /\ returned' # NoReturn /\ repeat # NoRepeat)
          => Abstract' = repeat.state]_vars

\* ------------------------------------------------- C16
\* C16: a selector command writes and publishes current_option only in a step
\* in which the media player's _select_source has returned OK; a selector
\* command that returns a failure status leaves current_option and the
\* published option as they were.
C16_UpdateOnlyAfterPlayerOK ==
    [][\A h \in HandlerIds :
          (Runs(h) /\ handlers[h].cmd \in SelectorCmds) =>
              /\ (current_option' # current_option \/ select_remote' # select_remote)
                     => returned'.res = "OK"
              /\ returned'.res \in {"BAD_REQUEST", "SERVER_ERROR"}
                     => (current_option' = current_option /\ select_remote' = select_remote)]_vars

\* C16, the failure half alone: a failing selector command changes nothing of the selector
C16_FailureKeepsOption ==
    [][\A h \in HandlerIds :
          (Runs(h) /\ handlers[h].cmd \in SelectorCmds
                   /\ returned'.res \in {"BAD_REQUEST", "SERVER_ERROR"})
              => (current_option' = current_option /\ select_remote' = select_remote)]_vars

\* ------------------------------------------------- C17
\* C17: when a command that switches the media player's camera (a selector
\* command or a SELECT_SOURCE sent to the media player) returns OK, the
\* selector's current_option equals the media player's current_source.
C17_SelectorFollowsPlayer ==
    [][\A h \in HandlerIds :
          (Runs(h) /\ handlers[h].cmd \in SourceCmds /\ returned'.res = "OK")
              => current_option' = current_source']_vars

C18_UnknownRefused ==
    /\ returned = [cmd |-> "SELECT_OPTION", arg |-> "X", res |-> "BAD_REQUEST"]
    /\ is_streaming /\ cameras_config # <<>>

C19_WrapForward ==
    /\ cameras_config = <<"A", "B", "C">>
    /\ origin.cmd = "SELECT_NEXT" /\ origin.from = "C" /\ current_option = "A"

\* SelectPrevious has wrapped from the first option to the last
C19_WrapBackward ==
    /\ cameras_config = <<"A", "B", "C">>
    /\ origin.cmd = "SELECT_PREVIOUS" /\ origin.from = "A" /\ current_option = "C"

\* ------------------------------------------------- C20
\* C20: whenever the option list is not empty, current_option is one of the
\* options, whatever selector commands and update_from_media_player calls
\* (with names of the list or not) have run.
C20_CurrentOptionInOptions == options # <<>> => current_option \in Range(options)

\* update_from_media_player("X") has just been ignored after the selection had
\* been moved to the last of three options
C20_Witness ==
    /\ cameras_config = <<"A", "B", "C">>
    /\ returned = [cmd |-> "update_from_media_player", arg |-> "X", res |-> None]
    /\ current_option = "C" /\ select_remote = "C"

\* ------------------------------------------------- C21
\* C21: SelectNext and SelectPrevious return SERVER_ERROR and change nothing of
\* the selector or of the media player when current_option is not in the
\* option list (the empty list included); SelectFirst and SelectLast return
\* SERVER_ERROR, changing nothing, when the option list is empty.
C21_DirectionalFailure ==
    [][\A h \in HandlerIds :
          (/\ Runs(h) /\ handlers[h].pc = "begin"
           /\ \/ handlers[h].cmd \in {"SELECT_NEXT", "SELECT_PREVIOUS"}
                    /\ current_option \notin Range(options)
              \/ handlers[h].cmd \in {"SELECT_FIRST", "SELECT_LAST"} /\ options = <<>>)
          => /\ returned' = [cmd |-> handlers[h].cmd, arg |-> "", res |-> "SERVER_ERROR"]
             /\ UNCHANGED <<current_option, select_remote, current_source, current_client,
                            attributes, remote, is_streaming, stream_task, tasks>>]_vars

\* SelectPrevious has failed on the empty option list
C21_Witness ==
    /\ options = <<>> /\ current_option = ""
    /\ returned = [cmd |-> "SELECT_PREVIOUS", arg |-> "", res |-> "SERVER_ERROR"]

C21_NextFailed == options = <<>> /\ returned = [cmd |-> "SELECT_NEXT", arg |-> "", res |-> "SERVER_ERROR"]
C21_FirstFailed == options = <<>> /\ returned = [cmd |-> "SELECT_FIRST", arg |-> "", res |-> "SERVER_ERROR"]
C21_LastFailed == options = <<>> /\ returned = [cmd |-> "SELECT_LAST", arg |-> "", res |-> "SERVER_ERROR"]

\* ------------------------------------------------- C22
\* C22: an exception raised inside a media player or selector command handler
\* makes handle_command return SERVER_ERROR, the caller never receives the
\* exception; a command handle_command has no branch for returns BAD_REQUEST.
C22_ExceptionsBecomeServerError ==
    [][\A h \in HandlerIds :
          Runs(h) =>
              /\ raised' # "" => returned'.res = "SERVER_ERROR"
              /\ returned'.res # "raised"
              /\ handlers[h].cmd \in UnsupportedCmds => returned'.res = "BAD_REQUEST"]_vars

\* the publish has raised in PowerOff, after the stop and the write of STATE
C22_Witness ==
    /\ raised \in PublishErrors
    /\ returned = [cmd |-> "OFF", arg |-> "", res |-> "SERVER_ERROR"]
    /\ attributes.STATE = OFF /\ ~is_streaming /\ issued >= 2

\* the same in a selector command, and the two unsupported commands
C22_SelectorRaised == raised \in PublishErrors /\ returned.cmd = "SELECT_OPTION" /\ returned.res = "SERVER_ERROR"
C22_PlayerUnsupported == returned = [cmd |-> "PLAY_PAUSE", arg |-> "", res |-> "BAD_REQUEST"]
C22_SelectorUnsupported == returned = [cmd |-> "TOGGLE", arg |-> "", res |-> "BAD_REQUEST"]

\* ------------------------------------------------- C23
\* C23: when a command ends with SERVER_ERROR because an exception was raised
\* in its handler, the entity state (power, selected camera, active client,
\* streaming flag, image) is what it was before the command.  Stated for a
\* command that raises in its first step, where the state before the step is
\* the state before the command.
C23_FailedCommandLeavesState ==
    [][\A h \in HandlerIds :
          (Runs(h) /\ handlers[h].pc = "begin" /\ raised' # ""
                   /\ returned'.res = "SERVER_ERROR")
              => /\ attributes'.STATE = attributes.STATE
                 /\ attributes'.MEDIA_IMAGE_URL = attributes.MEDIA_IMAGE_URL
                 /\ current_source' = current_source
                 /\ current_client' = current_client
                 /\ is_streaming' = is_streaming]_vars

\* ------------------------------------------------- C24
\* C24: get_snapshot returns the bytes of the response if and only if the
\* status is 200, the body begins with FF D8 FF or with the 8-byte PNG
\* signature and the body is longer than 1000 bytes; otherwise (another
\* status, another beginning, 1000 bytes or fewer, a timeout, an exception, no
\* session) it returns no image.
C24_SnapshotAcceptedIff ==
    fetch.outcome # "" =>
        LET accepted == fetch.result # <<>>
            jpeg == /\ Len(fetch.head) >= 3
                    /\ fetch.head[1] = 255 /\ fetch.head[2] = 216 /\ fetch.head[3] = 255
            png == /\ Len(fetch.head) >= 8
                   /\ \A i \in 1..8 : fetch.head[i] = <<137, 80, 78, 71, 13, 10, 26, 10>>[i]
        IN  /\ accepted <=> /\ fetch.outcome = "response"
                            /\ fetch.status = 200
                            /\ jpeg \/ png
                            /\ fetch.length > 1000
            /\ accepted => fetch.result = <<[head |-> fetch.head, length |-> fetch.length]>>
            /\ fetch.outcome \in {"TimeoutError", "Exception"} => ~fetch.propagated

\* a 200 response with a JPEG body of exactly 1000 bytes has been rejected
C24_Witness ==
    /\ fetch.outcome = "response" /\ fetch.status = 200
    /\ fetch.head = <<255, 216, 255, 224>> /\ fetch.length = 1000
    /\ fetch.result = <<>>

C24_PngAccepted ==
    /\ fetch.status = 200 /\ fetch.head = PngSignature /\ fetch.length = 1001
    /\ fetch.result = <<[head |-> PngSignature, length |-> 1001]>>

C24_JpegAccepted == fetch.status = 200 /\ fetch.head = <<255, 216, 255, 224>> /\ fetch.result # <<>>
C24_TimeoutRejected == fetch.outcome = "TimeoutError" /\ fetch.result = <<>>
C24_ErrorStatusRejected == fetch.status = 404 /\ fetch.head = PngSignature /\ fetch.length = 4096 /\ fetch.result = <<>>

\* ------------------------------------------------- C25
\* C25 as stated: the quality search encodes first at 85 and lowers the
\* quality by 10 each time the encoding is larger than max_size_kb; the image
\* returned is at most max_size_kb or was encoded at the floor quality 20; no
\* encoding is done below quality 20.
C25_QualitySearchToFloor ==
    (encode.pc = "done" /\ ~encode.failed) =>
        /\ encode.encoded[1] = 85
        /\ \A i \in 2..Len(encode.encoded) :
              /\ encode.encoded[i] = encode.encoded[i - 1] - 10
              /\ encode.size_at[encode.encoded[i - 1]] > encode.max_size_kb * 1024
        /\ \A i \in 1..Len(encode.encoded) : encode.encoded[i] >= 20
        /\ \/ EmittedBytes <= encode.max_size_kb * 1024
           \/ EmittedQuality = 20

\* C25, amended: the same search, but its last encoding is at quality 25, the
\* last step of 10 from 85 that is above 20: the image returned is at most
\* max_size_kb or was encoded at quality 25, and no encoding is done at
\* quality 20 or below.
C25_QualitySearchTo25 ==
    (encode.pc = "done" /\ ~encode.failed) =>
        /\ encode.encoded[1] = 85
        /\ \A i \in 2..Len(encode.encoded) :
              /\ encode.encoded[i] = encode.encoded[i - 1] - 10
              /\ encode.size_at[encode.encoded[i - 1]] > encode.max_size_kb * 1024
        /\ \A i \in 1..Len(encode.encoded) : encode.encoded[i] > 20
        /\ \/ EmittedBytes <= encode.max_size_kb * 1024
           \/ EmittedQuality = 25

\* an image too large at every quality has been encoded seven times and is
\* returned as encoded at quality 25
C25_Witness ==
    /\ encode.pc = "done"
    /\ encode.encoded = <<85, 75, 65, 55, 45, 35, 25>>
    /\ EmittedBytes = 81921 /\ encode.max_size_kb = 80
    /\ encode.quality = 15

\* an image that fits at the third quality tried
C25_FitsAt65 == encode.pc = "done" /\ encode.encoded = <<85, 75, 65>> /\ EmittedBytes = 81920

\* ------------------------------------------------- C28
\* C28: when SelectSource finds the entity streaming, the polling task is
\* cancelled and has ended before current_source / current_client change: no
\* polling task is alive in the step that changes them; and the handler
\* creates a polling task only in the step after the settle sleep, with no
\* other polling task alive: no loop is started before the old one has stopped.
C28_StopBeforeSwitchBeforeStart ==
    [][\A h \in HandlerIds :
          (Runs(h) /\ handlers[h].cmd = "SELECT_SOURCE") =>
              /\ (/\ \/ handlers[h].pc = "stop_await"
                     \/ handlers[h].pc = "begin" /\ is_streaming
                  /\ handlers'[h].pc = "settle")
                     => LiveTasks = {}
              /\ (\E t \in TaskIds : Alive(t)' /\ ~Alive(t))
                     => (handlers[h].pc = "settle" /\ LiveTasks = {})]_vars

\* SelectSource has switched camera after awaiting the end of the polling task
C28_SwitchedAfterStop ==
    \E h \in HandlerIds :
        /\ handlers[h].cmd = "SELECT_SOURCE" /\ handlers[h].pc = "settle"
        /\ handlers[h].state0 = PLAYING /\ ~is_streaming /\ LiveTasks = {}

\* ------------------------------------------------- C29
\* C29: when an iteration of the polling loop finds the power not ON, the loop
\* ends by itself and leaves the stream loop Idle: is_streaming is False
\* afterwards, so that a later start_image_streaming() spawns a new task.
C29_PowerOffTickLeavesIdle ==
    [][\A t \in TaskIds :
          (/\ Ran(T(t)) /\ tasks[t].pc \in {"start", "sleep", "backoff"}
           /\ ~tasks[t].must_cancel
           /\ LoopCondition(is_streaming, current_client)
           /\ ~is_on(attributes.STATE))
              => (~Alive(t)' /\ ~is_streaming')]_vars

\* the part of C29 the loop does keep: such an iteration ends the task
C29_PowerOffTickEndsTask ==
    [][\A t \in TaskIds :
          (/\ Ran(T(t)) /\ tasks[t].pc \in {"start", "sleep", "backoff"}
           /\ ~tasks[t].must_cancel
           /\ ~is_on(attributes.STATE))
              => ~Alive(t)']_vars

\* an iteration has found the power not ON with the loop condition true
C29_PowerOffTickReached ==
    \E t \in TaskIds : /\ AtHead(T(t)) /\ tasks[t].pc \in {"start", "sleep", "backoff"}
                      /\ ~tasks[t].must_cancel
                      /\ LoopCondition(is_streaming, current_client)
                      /\ ~is_on(attributes.STATE)

\* ------------------------------------------------- driver.py: first initialisation
\* config.json's "cameras": a list of descriptors.  A field of a descriptor is
\* <<>> when the key is absent and <<v>> when it is present; a name is a
\* string, a snapshot_url is the sequence of its characters
HttpPrefix == <<"h", "t", "t", "p", ":", "/", "/">>
HttpsPrefix == <<"h", "t", "t", "p", "s", ":", "/", "/">>

Urls == {<<>>,                                        \* ""
         HttpPrefix \o <<"a">>,                       \* "http://a"
         HttpsPrefix \o <<"a">>,                      \* "https://a"
         <<"f", "t", "p", ":", "/", "/", "a">>,       \* "ftp://a"
         <<"h", "t", "t", "p", ":", "/">>,            \* "http:/"
         <<"x">> \o HttpPrefix}                       \* "xhttp://"

CameraNames == {"", "A", "B"}

Descriptors == [name : {<<>>} \cup {<<n>> : n \in CameraNames},
                snapshot_url : {<<>>} \cup {<<u>> : u \in Urls}]

ListsOf(S, lo, hi) == UNION {[1..k -> S] : k \in lo..hi}

\* what config.json may hold when the driver starts
ConfigFiles == ListsOf(Descriptors, 0, MaxCameras)

\* build_camera_config for the names and URLs _handle_user_data_response lets through
SetupDescriptors == [name : {<<n>> : n \in CameraNames \ {""}},
                     snapshot_url : {<<HttpPrefix \o <<"a">> >>, <<HttpsPrefix \o <<"a">> >>}]

\* what a completed setup flow has saved to config.json
SetupConfigs == ListsOf(SetupDescriptors, 1, MaxCameras)

RequiredFields == <<"name", "snapshot_url">>

\* `not config[field]` for a present field
Falsy(field, v) == IF field = "name" THEN v = "" ELSE v = <<>>

\* variant: only the presence of the key is required
FieldMissingKeyOnly(config, field) == config[field] = <<>>

\* `field not in config or not config[field]`
FieldMissing(config, field) == config[field] = <<>> \/ Falsy(field, config[field][1])

\* url.startswith('http://') or url.startswith('https://')
UrlFormatOk(url) == StartsWith(url, HttpPrefix) \/ StartsWith(url, HttpsPrefix)

NoError == [camera |-> 0, problem |-> ""]

\* the loop of validate_cameras_config from descriptor i on: the first
\* failing check returns
RECURSIVE ValidateFrom(_, _)
ValidateFrom(cfg, i) ==
    IF i > Len(cfg) THEN [is_valid |-> TRUE, error |-> NoError]
    ELSE IF \E f \in 1..Len(RequiredFields) : FieldMissing(cfg[i], RequiredFields[f])
    THEN [is_valid |-> FALSE,
          error |-> [camera |-> i,
                     problem |-> RequiredFields[CHOOSE f \in 1..Len(RequiredFields) :
                                     /\ FieldMissing(cfg[i], RequiredFields[f])
                                     /\ \A g \in 1..(f - 1) : ~FieldMissing(cfg[i], RequiredFields[g])]]]
    ELSE IF ~UrlFormatOk(cfg[i].snapshot_url[1])
    THEN [is_valid |-> FALSE, error |-> [camera |-> i, problem |-> "url_format"]]
    ELSE ValidateFrom(cfg, i + 1)

\* CameraEntityFactory.validate_cameras_config
validate_cameras_config(cfg) ==
    IF cfg = <<>> THEN [is_valid |-> FALSE, error |-> [camera |-> 0, problem |-> "empty"]]
    ELSE ValidateFrom(cfg, 1)

\* [cam["name"] for cam in cameras_config]
CameraNamesOf(cfg) == [i \in 1..Len(cfg) |-> cfg[i].name[1]]

\* CameraEntityFactory.create_camera_entity: the media player as its
\* constructor leaves it
create_camera_entity(cfg) ==
    [clients |-> Range(CameraNamesOf(cfg)),
     source_list |-> CameraNamesOf(cfg),
     state |-> OFF,
     current_source |-> InitSource(CameraNamesOf(cfg)),
     current_client |-> InitClient(CameraNamesOf(cfg)),
     is_streaming |-> FALSE,
     stream_task |-> NoTask]

\* the id every entity is created with
EntityId == "security_cameras"

\* the clients of the media player and the clients of the probes
EntityClient(name) == <<"entity", name>>

\* _test_all_cameras: a new SecurityCameraClient for the probe of camera i
ProbeClient(cfg, i) == <<"probe", i>>

NewProbe == [pc |-> "created", verdict |-> FALSE, result |-> ""]

InitDriver ==
    /\ cameras_config = <<>>
    /\ attributes = [STATE |-> OFF, SOURCE |-> "", MEDIA_IMAGE_URL |-> "",
                     MEDIA_TITLE |-> "", MEDIA_ARTIST |-> "Camera View"]
    /\ remote = None
    /\ current_source = ""
    /\ current_client = None
    /\ is_streaming = FALSE
    /\ stream_task = NoTask
    /\ tasks = [t \in TaskIds |-> FreeTask]
    /\ handlers = [h \in HandlerIds |-> IdleHandler]
    /\ ready = <<>>
    /\ issued = 0
    /\ returned = NoReturn
    /\ power_cycle = "none"
    /\ current_option = ""
    /\ select_remote = None
    /\ media_player = FALSE
    /\ repeat = NoRepeat
    /\ origin = NoOrigin
    /\ raised = ""
    /\ fetch = NoFetch
    /\ encode = NoEncode
    /\ \E cfg \in ConfigFiles : driver = [NoDriver EXCEPT !.pc = "main", !.config = cfg]

\* _init_integration(force_recreate) reading cfg from config.json while no
\* entity exists: up to its return, or up to the await of the probes
InitIntegrationFirst(cfg, force_recreate) ==
    /\ ~(force_recreate /\ driver.camera_entity # <<>>)
    /\ IF cfg = <<>> \/ ~validate_cameras_config(cfg).is_valid
       THEN driver' = [driver EXCEPT !.config = cfg, !.pc = "running", !.result = <<FALSE>>]
       ELSE driver' = [driver EXCEPT !.config = cfg,
                                     !.camera_entity = <<create_camera_entity(cfg)>>,
                                     !.available_entities = @ \cup {EntityId},
                                     !.probes = [i \in 1..Len(cfg) |-> NewProbe],
                                     !.pc = "probing",
                                     !.result = <<>>]

\* main(): the initialisation at start-up
Main == driver.pc = "main" /\ InitIntegrationFirst(driver.config, FALSE)

\* setup_handler: the setup flow has saved cfg and returned SetupComplete
SetupCompleteFirst(cfg) ==
    /\ driver.pc = "running" /\ driver.camera_entity = <<>>
    /\ InitIntegrationFirst(cfg, TRUE)

\* _test_single_camera -> test_connection up to the request: connect() opens
\* the session (ok) or fails and test_connection returns False.  The probes
\* take their first step in the order gather() was given them
ProbeConnect(i, ok) ==
    /\ driver.pc = "probing" /\ i \in 1..Len(driver.probes)
    /\ driver.probes[i].pc = "created"
    /\ \A j \in 1..(i - 1) : driver.probes[j].pc # "created"
    /\ driver' = IF ok
                 THEN [driver EXCEPT !.sessions = @ \cup {ProbeClient(driver.config, i)},
                                     !.probes[i].pc = "fetching"]
                 ELSE [driver EXCEPT !.probes[i] = [pc |-> "done", verdict |-> FALSE,
                                                    result |-> "False"]]

\* get_snapshot returns to test_connection: an image (longer than 1000 bytes)
\* or None; the finally clause starts closing the session
ProbeFetched(i, image) ==
    /\ driver.pc = "probing" /\ i \in 1..Len(driver.probes)
    /\ driver.probes[i].pc = "fetching"
    /\ driver' = [driver EXCEPT !.probes[i].pc = "closing", !.probes[i].verdict = image]

CloseOutcomes == {"closed", "raised_then_closed", "raised_twice"}

\* session.close() in test_connection's finally clause: it returns, or it
\* raises and _test_single_camera's handler closes again, which returns (the
\* probe answers False) or raises too (the exception leaves the probe)
ProbeClosed(i, outcome) ==
    /\ driver.pc = "probing" /\ i \in 1..Len(driver.probes)
    /\ driver.probes[i].pc = "closing"
    /\ driver' = [driver EXCEPT
           !.sessions = IF outcome = "raised_twice" THEN @
                        ELSE @ \ {ProbeClient(driver.config, i)},
           !.probes[i].pc = "done",
           !.probes[i].result = IF outcome = "raised_twice" THEN "Exception"
                                ELSE IF outcome = "closed" /\ driver.probes[i].verdict
                                THEN "True" ELSE "False"]

\* variant: gather() without return_exceptions lets a probe's exception through
GatherRaisesAny(probes) == \E i \in 1..Len(probes) : probes[i].result = "Exception"

\* asyncio.gather(*test_tasks, return_exceptions=True): an exception of a
\* probe is one of the results
GatherRaises(probes) == FALSE

\* every probe has finished: gather() returns, _test_all_cameras counts the
\* results and _init_integration returns True (False from its except clause)
GatherReturns ==
    /\ driver.pc = "probing"
    /\ \A i \in 1..Len(driver.probes) : driver.probes[i].pc = "done"
    /\ driver' = [driver EXCEPT !.pc = "running",
                                !.result = <<~GatherRaises(driver.probes)>>]

\* a step of the driver alone
DriverOnly ==
    UNCHANGED <<cameras_config, attributes, remote, current_source, current_client,
                is_streaming, stream_task, tasks, handlers, ready, issued, returned,
                power_cycle, selectVars, repeat, raised, fetch, encode>>

NextDriver ==
    \/ Main /\ DriverOnly
    \/ \E cfg \in SetupConfigs : SetupCompleteFirst(cfg) /\ DriverOnly
    \/ \E i \in 1..MaxCameras, ok \in BOOLEAN : ProbeConnect(i, ok) /\ DriverOnly
    \/ \E i \in 1..MaxCameras, image \in BOOLEAN : ProbeFetched(i, image) /\ DriverOnly
    \/ \E i \in 1..MaxCameras, outcome \in CloseOutcomes : ProbeClosed(i, outcome) /\ DriverOnly
    \/ GatherReturns /\ DriverOnly

SpecDriver == InitDriver /\ [][NextDriver]_vars

\* ------------------------------------------------- C26
\* the claim's own reading of a valid configuration: the list is non-empty and
\* every descriptor has a non-empty name and a non-empty snapshot_url that
\* starts with http:// or https://
C26_StatedValid(cfg) ==
    /\ Len(cfg) > 0
    /\ \A i \in 1..Len(cfg) :
          /\ cfg[i].name # <<>> /\ cfg[i].name[1] # ""
          /\ cfg[i].snapshot_url # <<>> /\ cfg[i].snapshot_url[1] # <<>>
          /\ \/ /\ Len(cfg[i].snapshot_url[1]) >= 7
                /\ SubSeq(cfg[i].snapshot_url[1], 1, 7) = HttpPrefix
             \/ /\ Len(cfg[i].snapshot_url[1]) >= 8
                /\ SubSeq(cfg[i].snapshot_url[1], 1, 8) = HttpsPrefix

\* C26: validate_cameras_config answers valid exactly for the configurations
\* that are non-empty with a non-empty name and an http:// or https://
\* snapshot_url in every descriptor, and an _init_integration call that finds
\* the configuration not valid returns False and creates no entity: the
\* _camera_entity global and both registries stay as they were.
C26_InvalidConfigCreatesNothing ==
    [][/\ validate_cameras_config(driver.config).is_valid = C26_StatedValid(driver.config)
       /\ (driver.pc \in {"main", "running"} /\ driver' # driver
           /\ ~C26_StatedValid(driver'.config))
             => /\ driver'.result = <<FALSE>>
                /\ driver'.camera_entity = <<>>
                /\ driver'.available_entities = driver.available_entities
                /\ driver'.configured_entities = driver.configured_entities
                /\ driver'.probes = driver.probes
       /\ (driver.pc \in {"main", "running"} /\ driver' # driver
           /\ C26_StatedValid(driver'.config))
             => driver'.camera_entity # <<>>]_vars

\* _init_integration has refused a configuration whose second descriptor has
\* a snapshot_url that is not an http(s) URL, and no entity exists
C26_Witness ==
    /\ driver.pc = "running" /\ driver.result = <<FALSE>> /\ driver.camera_entity = <<>>
    /\ Len(driver.config) = 2
    /\ validate_cameras_config(driver.config).error = [camera |-> 2, problem |-> "url_format"]

\* a descriptor without the name key is refused
C26_MissingNameRefused ==
    /\ driver.pc = "running" /\ driver.result = <<FALSE>>
    /\ Len(driver.config) = 1 /\ driver.config[1].name = <<>>

\* a valid configuration is accepted and its entity created
C26_ValidAccepted ==
    /\ driver.pc = "probing" /\ driver.camera_entity # <<>>
    /\ Len(driver.config) = 2 /\ EntityId \in driver.available_entities

\* ------------------------------------------------- C30
\* the sessions of the media player's own clients
EntitySessions(d) == {c \in d.sessions : c[1] = "entity"}

\* C30: the start-up connectivity check runs one probe per configured camera
\* and _init_integration returns only when all of them have finished; a step
\* of a probe, failing or raising included, leaves the other probes as they
\* are; whatever the probes answer _init_integration returns True with the
\* entity it created; and a probe works on its own client: the sessions of the
\* media player's clients and the entity do not change while probing.
C30_ProbesIndependent ==
    [][driver.pc = "probing" =>
          /\ Len(driver.probes) = Len(driver.config)
          /\ driver'.pc = "running" =>
                /\ \A i \in 1..Len(driver.probes) : driver.probes[i].pc = "done"
                /\ driver'.result = <<TRUE>>
          /\ \A i \in 1..Len(driver.probes) :
                driver'.probes[i] # driver.probes[i] =>
                    \A j \in 1..Len(driver.probes) :
                        j # i => driver'.probes[j] = driver.probes[j]
          /\ EntitySessions(driver') = EntitySessions(driver)
          /\ driver'.camera_entity = driver.camera_entity
          /\ driver'.available_entities = driver.available_entities]_vars

\* _init_integration has returned True after a check of two cameras in which
\* one probe raised and the other found its camera online
C30_Witness ==
    /\ driver.pc = "running" /\ driver.result = <<TRUE>> /\ driver.camera_entity # <<>>
    /\ Len(driver.probes) = 2
    /\ driver.probes[1].result = "Exception"
    /\ driver.probes[2].result = "True"

\* two probes are waiting for their cameras at the same time
C30_ProbesOverlap ==
    /\ driver.pc = "probing" /\ Len(driver.probes) = 2
    /\ driver.probes[1].pc = "fetching" /\ driver.probes[2].pc = "fetching"
    /\ Cardinality(driver.sessions) = 2

\* a probe that fails at once while an earlier one is still waiting
C30_FailedBesideWaiting ==
    /\ driver.pc = "probing" /\ Len(driver.probes) = 2
    /\ driver.probes[1].pc = "fetching" /\ driver.probes[2].result = "False"

\* ------------------------------------------------- driver.py: reinitialisation
\* The media player of the variables above is the entity created at start-up;
\* a completed setup flow replaces it.  The entity built in its place is
\* recorded in driver.camera_entity; a run has one reinitialisation and the
\* commands to the new entity are not followed.

\* build_camera_config for camera `name`
BuiltDescriptor(name) == [name |-> <<name>>, snapshot_url |-> <<HttpPrefix \o <<"a">> >>]

\* the state main() leaves for the cameras `cfg`: the entity created,
\* registered and configured by the remote
Booted(cfg) ==
    [NoDriver EXCEPT !.pc = "running",
                     !.config = [i \in 1..Len(cfg) |-> BuiltDescriptor(cfg[i])],
                     !.camera_entity = <<create_camera_entity([i \in 1..Len(cfg) |-> BuiltDescriptor(cfg[i])])>>,
                     !.available_entities = {EntityId},
                     !.configured_entities = {EntityId},
                     !.result = <<TRUE>>]

InitReinit ==
    /\ cameras_config \in ConfigLists \ {<<>>}
    /\ attributes = [STATE |-> OFF,
                     SOURCE |-> InitSource(cameras_config),
                     MEDIA_IMAGE_URL |-> "",
                     MEDIA_TITLE |-> InitSource(cameras_config),
                     MEDIA_ARTIST |-> "Camera View"]
    /\ remote = None
    /\ current_source = InitSource(cameras_config)
    /\ current_client = InitClient(cameras_config)
    /\ is_streaming = FALSE
    /\ stream_task = NoTask
    /\ tasks = [t \in TaskIds |-> FreeTask]
    /\ handlers = [h \in HandlerIds |-> IdleHandler]
    /\ ready = <<>>
    /\ issued = 0
    /\ returned = NoReturn
    /\ power_cycle = "none"
    /\ current_option = InitSource(cameras_config)
    /\ select_remote = None
    /\ media_player = TRUE
    /\ repeat = NoRepeat
    /\ origin = NoOrigin
    /\ raised = ""
    /\ fetch = NoFetch
    /\ encode = NoEncode
    /\ driver = Booted(cameras_config)

\* a command reaches the media player while the remote has it configured
DispatchConfigured(cmd, arg) ==
    /\ EntityId \in driver.configured_entities
    /\ Dispatch(cmd, arg)
    /\ UNCHANGED driver

\* the setup flow ends with SetupComplete: setup_handler becomes runnable
SetupComplete ==
    /\ ~driver.recreated
    /\ \A h \in HandlerIds : handlers[h].cmd # "SETUP_COMPLETE"
    /\ Dispatch("SETUP_COMPLETE", "")
    /\ UNCHANGED driver

\* get_snapshot -> connect(): the client of a task that starts a request has a session
SessionsAfter(ts) ==
    driver.sessions \cup {EntityClient(ts[t].client) :
                             t \in {u \in TaskIds : ts[u].pc = "fetch" /\ tasks[u].pc # "fetch"}}

\* a step of the media player: only the sessions of its clients follow
PlayerStep == driver' = [driver EXCEPT !.sessions = SessionsAfter(tasks')]

\* disconnect()'s loop over self.clients.values() from client k + 1 on: the
\* next client that has a session, 0 when there is none
NextOpen(k, sessions) ==
    IF \E j \in (k + 1)..Len(cameras_config) : EntityClient(cameras_config[j]) \in sessions
    THEN CHOOSE j \in (k + 1)..Len(cameras_config) :
            /\ EntityClient(cameras_config[j]) \in sessions
            /\ \A i \in (k + 1)..(j - 1) : EntityClient(cameras_config[i]) \notin sessions
    ELSE 0

\* disconnect() after stop_image_streaming, from client k + 1 on, and the rest
\* of the clean-up: the handler is suspended in the next session.close(), or
\* the loop is over, the old entity leaves both registries, _camera_entity is
\* None and the handler sleeps 0.5 s.  d is the driver's state so far
ReinitCloseFrom(h, k, d) ==
    /\ IF NextOpen(k, d.sessions) # 0
       THEN /\ handlers' = [handlers EXCEPT ![h].pc = "close_await"]
            /\ driver' = [d EXCEPT !.closing = <<NextOpen(k, d.sessions)>>]
       ELSE /\ handlers' = [handlers EXCEPT ![h].pc = "cleanup_sleep"]
            /\ driver' = [d EXCEPT !.closing = <<>>,
                                   !.available_entities = @ \ {EntityId},
                                   !.configured_entities = @ \ {EntityId},
                                   !.camera_entity = <<>>]
    /\ returned' = NoReturn
    /\ power_cycle' = "none"
    /\ UNCHANGED <<cameras_config, issued, attributes, remote, current_source, current_client>>

\* setup_handler -> _init_integration(force_recreate=True) with the saved
\* configuration cfg, up to its first suspension
ReinitBegin(h) ==
    /\ AtHead(H(h)) /\ handlers[h].cmd = "SETUP_COMPLETE" /\ handlers[h].pc = "begin"
    /\ driver.camera_entity # <<>>
    /\ \E cfg \in SetupConfigs :
          IF ~validate_cameras_config(cfg).is_valid
          THEN /\ driver' = [driver EXCEPT !.config = cfg, !.result = <<FALSE>>]
               /\ Returns(h, "")
               /\ ready' = Tail(ready)
               /\ UNCHANGED <<cameras_config, issued, attributes, remote, current_source,
                              current_client, is_streaming, stream_task, tasks>>
          ELSE IF StopSuspends
               THEN /\ StopAndWait(h)
                    /\ driver' = [driver EXCEPT !.config = cfg, !.result = <<>>]
               ELSE /\ StopAtOnce
                    /\ ReinitCloseFrom(h, 0, [driver EXCEPT !.config = cfg, !.result = <<>>])

\* stop_image_streaming resumed: disconnect() goes on to close the clients
ReinitStopResume(h) ==
    /\ AtHead(H(h)) /\ handlers[h].cmd = "SETUP_COMPLETE" /\ handlers[h].pc = "stop_await"
    /\ StopResumed
    /\ ReinitCloseFrom(h, 0, driver)

\* a timer or a pending close of the suspended handler completes
ReinitWakes(h) ==
    /\ handlers[h].cmd = "SETUP_COMPLETE"
    /\ handlers[h].pc \in {"close_await", "cleanup_sleep", "probing"} /\ ~InReady(H(h))
    /\ ready' = Append(ready, H(h))
    /\ returned' = NoReturn
    /\ UNCHANGED power_cycle
    /\ UNCHANGED <<cameras_config, issued, attributes, remote, current_source, current_client,
                   is_streaming, stream_task, tasks, handlers, driver>>

\* session.close() returned: the client forgets its session and the loop goes on
ReinitCloseResume(h) ==
    /\ AtHead(H(h)) /\ handlers[h].cmd = "SETUP_COMPLETE" /\ handlers[h].pc = "close_await"
    /\ ready' = Tail(ready)
    /\ ReinitCloseFrom(h, driver.closing[1],
                       [driver EXCEPT !.sessions = @ \ {EntityClient(cameras_config[driver.closing[1]])}])
    /\ UNCHANGED <<is_streaming, stream_task, tasks>>

\* after the 0.5 s sleep: the new entity is created and made available, and
\* _test_all_cameras is awaited (its probes work on clients of their own)
ReinitCreate(h) ==
    /\ AtHead(H(h)) /\ handlers[h].cmd = "SETUP_COMPLETE" /\ handlers[h].pc = "cleanup_sleep"
    /\ ready' = Tail(ready)
    /\ handlers' = [handlers EXCEPT ![h].pc = "probing"]
    /\ driver' = [driver EXCEPT !.camera_entity = <<create_camera_entity(driver.config)>>,
                                !.available_entities = @ \cup {EntityId},
                                !.recreated = TRUE]
    /\ returned' = NoReturn
    /\ power_cycle' = "none"
    /\ UNCHANGED <<cameras_config, issued, attributes, remote, current_source, current_client,
                   is_streaming, stream_task, tasks>>

\* gather() returned: _init_integration returns True and setup_handler ends
ReinitReturns(h) ==
    /\ AtHead(H(h)) /\ handlers[h].cmd = "SETUP_COMPLETE" /\ handlers[h].pc = "probing"
    /\ ready' = Tail(ready)
    /\ Returns(h, "")
    /\ driver' = [driver EXCEPT !.result = <<TRUE>>]
    /\ UNCHANGED <<cameras_config, issued, attributes, remote, current_source, current_client,
                   is_streaming, stream_task, tasks>>

\* the variables neither the media player nor the driver writes
ReinitOnly ==
    UNCHANGED <<current_option, select_remote, media_player, repeat, origin, raised, fetch, encode>>

NextReinit ==
    \/ DispatchConfigured("ON", "") /\ ReinitOnly
    \/ DispatchConfigured("OFF", "") /\ ReinitOnly
    \/ \E src \in Names : DispatchConfigured("SELECT_SOURCE", src) /\ ReinitOnly
    \/ SetupComplete /\ ReinitOnly
    \/ \E h \in HandlerIds : TurnOn(h) /\ PlayerStep /\ ReinitOnly
    \/ \E h \in HandlerIds : TurnOff(h) /\ PlayerStep /\ ReinitOnly
    \/ \E h \in HandlerIds : TurnOffResume(h) /\ PlayerStep /\ ReinitOnly
    \/ \E h \in HandlerIds : SelectSourceBegin(h) /\ PlayerStep /\ ReinitOnly
    \/ \E h \in HandlerIds : SelectSourceResume(h) /\ PlayerStep /\ ReinitOnly
    \/ \E h \in HandlerIds : SettleTimer(h) /\ PlayerStep /\ ReinitOnly
    \/ \E h \in HandlerIds : SelectSourceSettled(h) /\ PlayerStep /\ ReinitOnly
    \/ \E h \in HandlerIds : ReinitBegin(h) /\ ReinitOnly
    \/ \E h \in HandlerIds : ReinitStopResume(h) /\ ReinitOnly
    \/ \E h \in HandlerIds : ReinitWakes(h) /\ ReinitOnly
    \/ \E h \in HandlerIds : ReinitCloseResume(h) /\ ReinitOnly
    \/ \E h \in HandlerIds : ReinitCreate(h) /\ ReinitOnly
    \/ \E h \in HandlerIds : ReinitReturns(h) /\ ReinitOnly
    \/ \E t \in TaskIds : FetchDone(t) /\ PlayerStep /\ ReinitOnly
    \/ \E t \in TaskIds : SleepTimer(t) /\ PlayerStep /\ ReinitOnly
    \/ \E t \in TaskIds : StreamLoopCancelled(t) /\ PlayerStep /\ ReinitOnly
    \/ \E t \in TaskIds : StreamLoopIterate(t) /\ PlayerStep /\ ReinitOnly
    \/ \E t \in TaskIds : StreamLoopTickOf(t, {"ok"}, FALSE) /\ PlayerStep /\ ReinitOnly

SpecReinit == InitReinit /\ [][NextReinit]_vars

\* ------------------------------------------------- C27
\* the step of _init_integration that builds the new entity
C27_Creates(h) ==
    Runs(h) /\ handlers[h].cmd = "SETUP_COMPLETE" /\ handlers[h].pc = "cleanup_sleep"

\* C27: when a reinitialisation builds the new entity the old one has been
\* torn down: no polling task of it is alive, every session of its clients is
\* closed, it is in neither registry, and the new media player is as its
\* constructor leaves it (OFF, first camera of the new configuration, not
\* streaming); from then on nothing of the old entity is running: no polling
\* task and no open session.
C27_OldEntityTornDown ==
    [][/\ \A h \in HandlerIds :
             C27_Creates(h) =>
                 /\ LiveTasks = {}
                 /\ EntitySessions(driver) = {}
                 /\ EntityId \notin driver.available_entities \cup driver.configured_entities
                 /\ driver'.camera_entity[1].state = OFF
                 /\ driver'.camera_entity[1].current_source = driver.config[1].name[1]
                 /\ ~driver'.camera_entity[1].is_streaming
       /\ driver.recreated => (LiveTasks' = {} /\ EntitySessions(driver') = {})]_vars

\* the part of C27 that holds: the old entity has left both registries, its
\* awaited task has ended and the new entity is as constructed
C27_RegistriesCleaned ==
    [][\A h \in HandlerIds :
          C27_Creates(h) =>
              /\ EntityId \notin driver.available_entities \cup driver.configured_entities
              /\ driver'.camera_entity = <<create_camera_entity(driver.config)>>
              /\ driver'.camera_entity[1].state = OFF
              /\ ~driver'.camera_entity[1].is_streaming]_vars

\* a reinitialisation of a streaming entity has completed
C27_ReinitOfStreamingDone ==
    /\ driver.recreated /\ driver.result = <<TRUE>>
    /\ returned.cmd = "SETUP_COMPLETE"
    /\ LiveTasks = {} /\ driver.sessions = {}
    /\ is_on(attributes.STATE)

\* ------------------------------------------------- C31
\* C31: whenever the entity's attributes show source X with a non-empty
\* image, the image was fetched through X's client: SelectSource, which
\* publishes the attributes as it leaves them, never leaves the previous
\* camera's image under the new source.
C31_ImageBelongsToSource ==
    attributes.MEDIA_IMAGE_URL # "" => attributes.MEDIA_IMAGE_URL = attributes.SOURCE

\* a snapshot of the camera selected by SelectSource is displayed
C31_OwnImageShown ==
    attributes.MEDIA_IMAGE_URL = "B" /\ attributes.SOURCE = "B" /\ is_streaming

\* ------------------------------------------------- C32
\* STATE is OFF exactly from the construction, or from the return of a
\* PowerOff (its last write), until the next _turn_on runs
C32_PoweredOff == attributes.STATE = OFF /\ \A h \in HandlerIds : handlers[h].cmd # "ON"

\* C32: once PowerOff has returned and until the next PowerOn, the displayed
\* image stays empty and no polling task fetches or publishes: the only step a
\* polling task takes is its last one.
C32_OffStaysDark ==
    [][C32_PoweredOff =>
          /\ \A t \in TaskIds : Ran(T(t)) => ~Alive(t)'
          /\ attributes'.STATE = OFF => attributes'.MEDIA_IMAGE_URL = ""]_vars

\* PowerOff has returned after the entity had streamed, and nothing is left
C32_OffAfterStreaming ==
    /\ returned = [cmd |-> "OFF", arg |-> "", res |-> "OK"]
    /\ attributes.STATE = OFF /\ attributes.MEDIA_IMAGE_URL = ""
    /\ LiveTasks = {} /\ ~is_streaming /\ issued >= 2

\* ------------------------------------------------- C33
\* no command or event handler has started and not yet returned
C33_NoHandlerInProgress == \A h \in HandlerIds : handlers[h].pc = "idle"

\* C33: whenever no handler is in progress, is_streaming is True if and only
\* if exactly one polling task is alive and stream_task refers to it; no live
\* task exists that stream_task does not reference.
C33_FlagMatchesTask ==
    C33_NoHandlerInProgress =>
        /\ is_streaming <=> (Cardinality(LiveTasks) = 1 /\ stream_task \in LiveTasks)
        /\ LiveTasks \subseteq {stream_task}

\* streaming with its one task referenced, and stopped with none, both at rest
C33_StreamingAtRest ==
    /\ C33_NoHandlerInProgress /\ is_streaming /\ LiveTasks = {stream_task}
    /\ issued >= 2 /\ current_source = "B"

C33_StoppedAtRest ==
    /\ C33_NoHandlerInProgress /\ ~is_streaming /\ LiveTasks = {}
    /\ attributes.STATE = UNAVAILABLE

\* ------------------------------------------------- C34
\* C34: whenever STATE is PLAYING and no handler is in progress, a polling
\* task is alive and is_streaming is set for the selected camera; in
\* particular the entity does not rest in PLAYING with polling stopped after
\* a remote disconnect.
C34_PlayingImpliesPolling ==
    (C33_NoHandlerInProgress /\ attributes.STATE = PLAYING) =>
        (is_streaming /\ LiveTasks # {} /\ current_client = current_source)

\* the remote has disconnected while the entity was streaming
C34_DisconnectedWhilePlaying ==
    /\ returned.cmd = "DISCONNECT" /\ C33_NoHandlerInProgress
    /\ attributes.STATE = PLAYING /\ ~is_streaming /\ LiveTasks = {}

\* ------------------------------------------------- C35
\* C35: MEDIA_ARTIST is "Camera Offline" only while STATE is UNAVAILABLE;
\* once a PowerOn has put the entity back to PLAYING, and while snapshots are
\* published again, the status text is "Camera View".
C35_OfflineOnlyWhileUnavailable ==
    attributes.MEDIA_ARTIST = "Camera Offline" => attributes.STATE = UNAVAILABLE

\* the stream failed, the entity is UNAVAILABLE and marked offline
C35_MarkedOffline ==
    /\ attributes.STATE = UNAVAILABLE /\ attributes.MEDIA_ARTIST = "Camera Offline"
    /\ attributes.MEDIA_IMAGE_URL = "" /\ ~is_streaming

\* after the failure a PowerOn succeeded and a snapshot is shown again, still
\* under the status text of the failure
C35_RecoveredAndPublishing ==
    /\ attributes.STATE = PLAYING /\ attributes.MEDIA_IMAGE_URL # ""
    /\ C33_NoHandlerInProgress /\ is_streaming
    /\ attributes.MEDIA_ARTIST = "Camera Offline"
====
